---- MODULE Spec2Model ----
(***************************************************************************)
(* A model of the Keplerian propagation code of the orbital-mechanics      *)
(* repository: solve_kepler and animate_orbits (orbit_plotly_animate.py)   *)
(* and plot_orbits (orbit.py, orbit_plotly.py).                            *)
(*                                                                         *)
(* Numbers.  The code computes in IEEE double precision.  The model keeps  *)
(* the same formulas, in the same order, in a decimal fixed-point format:  *)
(* a number x is the integer x * Scale, results are truncated towards      *)
(* zero, and a result outside the window [-MaxMag, MaxMag] or an undefined *)
(* result (x/0, sqrt of a negative number) is the single non-finite value  *)
(* NaN, which every operation propagates (numpy's inf and nan).            *)
(***************************************************************************)
EXTENDS Integers, Sequences, FiniteSets, TLC

\* ------------------------------------------------------------------------
\* The number format
\* ------------------------------------------------------------------------

\* Scale = Base * Base units make 1.0
Base == 100

Scale == Base * Base

\* the largest magnitude of a finite number, in whole units of 1.0
MaxReal == 2000

MaxMag == MaxReal * Scale

\* the non-finite value (numpy's inf / nan)
NaN == 2 * MaxMag + 1

IsNum(x) == x # NaN

Abs(x) == IF x < 0 THEN -x ELSE x

Sgn(x) == IF x < 0 THEN -1 ELSE 1

\* the element of a one-element set.  The operations below take their operands
\* through it, so that an operand is evaluated once however often it is used.
The(S) == CHOOSE r \in S : TRUE

\* a computed integer, as a number of the format
Fin(x) == IF x > MaxMag \/ x < -MaxMag THEN NaN ELSE x

\* n as a number of the format (the float of a Python int)
Num(n) == n * Scale

\* p/q as a number of the format
Frac(p, q) == (p * Scale) \div q

Neg(a) == The({IF x = NaN THEN NaN ELSE -x : x \in {a}})

Add(a, b) == The({IF x = NaN \/ y = NaN THEN NaN ELSE Fin(x + y) : x \in {a}, y \in {b}})

Sub(a, b) == The({IF x = NaN \/ y = NaN THEN NaN ELSE Fin(x - y) : x \in {a}, y \in {b}})

\* A * B / Scale for A, B >= 0, computed in pieces that stay inside TLC's integers
MulMag(A, B) ==
    IF (A \div Scale) * (B \div Scale) > MaxReal
    THEN NaN
    ELSE Fin((A \div Scale) * (B \div Scale) * Scale + (A \div Scale) * (B % Scale)
             + (A % Scale) * (B \div Scale) + ((A % Scale) * (B % Scale)) \div Scale)

\* a signed magnitude
Signed(sg, m) == IF m = NaN THEN NaN ELSE sg * m

Mul(a, b) ==
    The({IF x = NaN \/ y = NaN
         THEN NaN
         ELSE Signed(Sgn(x) * Sgn(y), The({m : m \in {MulMag(Abs(x), Abs(y))}}))
         : x \in {a}, y \in {b}})

\* A * Scale / B for A >= 0, B > 0, by long division in two digits of Base
DivMag(A, B) ==
    IF A \div B > MaxReal
    THEN NaN
    ELSE Fin((A \div B) * Scale + (((A % B) * Base) \div B) * Base
             + ((((A % B) * Base) % B) * Base) \div B)

\* numpy's float division: x/0 is not an error but a non-finite value
Div(a, b) ==
    The({IF x = NaN \/ y = NaN \/ y = 0
         THEN NaN
         ELSE Signed(Sgn(x) * Sgn(y), The({m : m \in {DivMag(Abs(x), Abs(y))}}))
         : x \in {a}, y \in {b}})

\* Python's float % with a positive modulus m: the result is in [0, m)
Mod(a, m) == The({IF x = NaN THEN NaN ELSE x % m : x \in {a}})

\* x / 2 for a float
Half(x) == Div(x, Num(2))

\* abs() of a float: nan stays nan
FAbs(a) == The({IF x = NaN THEN NaN ELSE Abs(x) : x \in {a}})

\* a < b on floats: every comparison with nan is False
Less(a, b) == The({x # NaN /\ y # NaN /\ x < y : x \in {a}, y \in {b}})

\* pi, from the approximation 355/113, rounded to the format
Pi == (355 * Scale + 56) \div 113

TwoPi == 2 * Pi

HalfPi == Pi \div 2

\* the Taylor polynomial of sin on [0, pi/4], from x and x^2
SinPoly(x, x2) ==
    x - The({t3 - The({t5 - Mul(t5, x2) \div 42 : t5 \in {Mul(t3, x2) \div 20}})
             : t3 \in {Mul(x, x2) \div 6}})

\* the Taylor polynomial of cos on [0, pi/4], from x^2
CosPoly(x2) ==
    Scale - The({t2 - The({t4 - Mul(t4, x2) \div 30 : t4 \in {Mul(t2, x2) \div 12}})
                 : t2 \in {x2 \div 2}})

\* sin on [0, pi/2]
SinQ(x) ==
    IF 2 * x <= HalfPi
    THEN The({SinPoly(x, x2) : x2 \in {Mul(x, x)}})
    ELSE The({CosPoly(x2) : x2 \in {Mul(HalfPi - x, HalfPi - x)}})

\* sin on [0, pi]
SinH(x) == IF x <= HalfPi THEN SinQ(x) ELSE SinQ(Pi - x)

\* sin of a finite number: the argument reduced to [0, 2 pi), then to [0, pi]
SinNum(x) ==
    The({IF y <= Pi THEN SinH(y) ELSE -SinH(TwoPi - y) : y \in {x % TwoPi}})

\* np.sin
Sin(a) == The({IF x = NaN THEN NaN ELSE SinNum(x) : x \in {a}})

\* np.cos(x) = sin(x + pi/2), on the reduced argument
Cos(a) ==
    The({IF x = NaN THEN NaN
         ELSE IF x % TwoPi = 0 THEN Scale
         ELSE SinNum((x % TwoPi) + HalfPi)
         : x \in {a}})

RECURSIVE SqrtIter(_, _)
\* Newton's iteration for the integer square root of n, from a guess x >= sqrt(n)
SqrtIter(n, x) ==
    The({IF y >= x THEN x ELSE SqrtIter(n, y) : y \in {(x + n \div x) \div 2}})

ISqrt(n) == IF n = 0 THEN 0 ELSE SqrtIter(n, IF n < 4 * Scale * Scale THEN 2 * Scale ELSE n)

\* np.sqrt: a negative argument gives nan (a warning, no exception)
Sqrt(a) ==
    The({IF x = NaN \/ x < 0 THEN NaN
         ELSE IF x <= 20 * Scale THEN ISqrt(x * Scale)
         ELSE ISqrt(x) * Base
         : x \in {a}})

\* the Taylor polynomial of arctan for |u| <= tan(pi/8), from u and u^2
AtanPoly(u, u2) ==
    u - The({p3 \div 3 - The({p5 \div 5 - The({p7 \div 7 - Mul(p7, u2) \div 9
                                               : p7 \in {Mul(p5, u2)}})
                              : p5 \in {Mul(p3, u2)}})
             : p3 \in {Mul(u, u2)}})

\* arctan for |u| <= tan(pi/8)
AtanSmall(a) == The({AtanPoly(u, Mul(u, u)) : u \in {a}})

\* arctan on [0, 1]: arctan t = pi/4 - arctan((1 - t)/(1 + t))
Atan01(a) ==
    The({IF 1000 * t <= 414 * Scale
         THEN AtanSmall(t)
         ELSE (Pi \div 4) - AtanSmall(Div(Scale - t, Scale + t))
         : t \in {a}})

\* arctan2 of finite numbers, not both 0: the angle in the first quadrant
AtanQ(ay, ax) == IF ay <= ax THEN Atan01(Div(ay, ax)) ELSE HalfPi - Atan01(Div(ax, ay))

\* np.arctan2(y, x) in [-pi, pi]; arctan2(0, 0) = 0
Arctan2(b, a) ==
    The({IF y = NaN \/ x = NaN THEN NaN
         ELSE IF x = 0 /\ y = 0 THEN 0
         ELSE The({(IF y < 0 THEN -1 ELSE 1) * (IF x < 0 THEN Pi - q ELSE q)
                   : q \in {AtanQ(Abs(y), Abs(x))}})
         : y \in {b}, x \in {a}})

\* np.radians: degrees (a number of the format) to radians
Radians(d) == Div(Mul(d, Pi), Num(180))

\* ------------------------------------------------------------------------
\* solve_kepler (orbit_plotly_animate.py)
\* ------------------------------------------------------------------------

\* the tolerance tol, in units of the number format.  The code's default 1e-10
\* is far below what the format resolves; the model keeps its role, a threshold
\* one hundred times the resolution, that is 0.01
tol == 100

\* range(100): the cap on the Newton updates
MaxIterations == 100

\* f = E - e * np.sin(E) - M
KeplerF(E, M, e) == Sub(Sub(E, Mul(e, Sin(E))), M)

\* df = 1 - e * np.cos(E)
KeplerDf(E, e) == Sub(Scale, Mul(e, Cos(E)))

\* E_new = E - f / df
KeplerNew(E, M, e) == The({Sub(x, Div(KeplerF(x, M, e), KeplerDf(x, e))) : x \in {E}})

\* a faulty test: an estimate that did not move is not taken as converged
KeplerConvergedMoved(E, E_new) ==
    Less(0, FAbs(Sub(E_new, E))) /\ Less(FAbs(Sub(E_new, E)), tol)

\* if abs(E_new - E) < tol
KeplerConverged(E, E_new) == Less(FAbs(Sub(E_new, E)), tol)

\* one pass of the for loop on <<E, left>>, left being "none" while the loop
\* runs and "break" once the test has held: after the break nothing is done
KeplerPass(st, M, e) ==
    IF st[2] = "break"
    THEN st
    ELSE The({IF KeplerConverged(st[1], E_new) THEN <<st[1], "break">> ELSE <<E_new, "none">>
              : E_new \in {KeplerNew(st[1], M, e)}})

RECURSIVE KeplerLoop(_, _, _, _, _)
\* the passes lo+1 .. hi of the for loop, made on st; they are evaluated in two
\* halves, which keeps the evaluation from nesting once per pass
KeplerLoop(st, M, e, lo, hi) ==
    IF hi <= lo
    THEN st
    ELSE IF hi = lo + 1
    THEN KeplerPass(st, M, e)
    ELSE The({KeplerLoop(half, M, e, (lo + hi) \div 2, hi)
              : half \in {KeplerLoop(st, M, e, lo, (lo + hi) \div 2)}})

\* solve_kepler(M, e): E = M, the loop, return E
solve_kepler(M, e) == The({KeplerLoop(<<x, "none">>, x, e, 0, MaxIterations)[1] : x \in {M}})

\* how the call solve_kepler(M, e) leaves its loop: "break", or "cap" when
\* range(100) is exhausted
KeplerLeft(M, e) ==
    The({IF KeplerLoop(<<x, "none">>, x, e, 0, MaxIterations)[2] = "break"
         THEN "break" ELSE "cap" : x \in {M}})

\* ------------------------------------------------------------------------
\* The frame transform and the two position formulas
\* (animate_orbits in orbit_plotly_animate.py; plot_orbits in orbit.py and
\* orbit_plotly.py hold the same rotation and curve blocks)
\* ------------------------------------------------------------------------

\* the dot product of two 3-vectors, summed left to right
Dot3(u, v) == Add(Add(Mul(u[1], v[1]), Mul(u[2], v[2])), Mul(u[3], v[3]))

\* column c of a 3x3 matrix (a tuple of rows)
Col(B, c) == <<B[1][c], B[2][c], B[3][c]>>

\* A @ B for 3x3 matrices
MatMul(A, B) ==
    The({[r \in 1..3 |-> [c \in 1..3 |-> Dot3(X[r], Col(Y, c))]] : X \in {A}, Y \in {B}})

\* A @ v for a 3-vector
MatVec(A, v) == The({[r \in 1..3 |-> Dot3(X[r], y)] : X \in {A}, y \in {v}})

\* a rotation about the z axis, from the cosine and the sine of the angle
RotZcs(c, s) == << <<c, Neg(s), 0>>, <<s, c, 0>>, <<0, 0, Scale>> >>

\* R_Omega (and R_omega): np.array([[cos, -sin, 0], [sin, cos, 0], [0, 0, 1]])
RotZ(t) == The({RotZcs(Cos(x), Sin(x)) : x \in {t}})

\* a rotation about the x axis, from the cosine and the sine of the angle
RotXcs(c, s) == << <<Scale, 0, 0>>, <<0, c, Neg(s)>>, <<0, s, c>> >>

\* a faulty R_i: the minus sign of -sin is lost
RotXUnsigned(t) == The({<< <<Scale, 0, 0>>, <<0, Cos(x), Sin(x)>>, <<0, Sin(x), Cos(x)>> >> : x \in {t}})

\* R_i: np.array([[1, 0, 0], [0, cos, -sin], [0, sin, cos]])
RotX(t) == The({RotXcs(Cos(x), Sin(x)) : x \in {t}})

\* R = R_Omega @ R_i @ R_omega, from the angles in degrees
RotationMatrix(i_deg, omega, Omega) ==
    MatMul(MatMul(RotZ(Radians(Omega)), RotX(Radians(i_deg))), RotZ(Radians(omega)))

\* a faulty linspace: the stop value is left out (endpoint=False)
LinspaceOpen(k, n) == Mul(Num(k), Div(TwoPi, Num(n)))

\* np.linspace(0, 2*np.pi, n)[k], k = 0 .. n-1: the last sample is the stop value
Linspace(k, n) ==
    IF n = 1 THEN 0
    ELSE IF k = n - 1 THEN TwoPi
    ELSE Mul(Num(k), Div(TwoPi, Num(n - 1)))

\* a faulty conic: 1 - e in the place of 1 - e**2
ConicRadiusLinear(a, e, nu) == Div(Mul(a, Sub(Scale, e)), Add(Scale, Mul(e, Cos(nu))))

\* r = a * (1 - e**2) / (1 + e * np.cos(nu))
ConicRadius(a, e, nu) == Div(Mul(a, Sub(Scale, Mul(e, e))), Add(Scale, Mul(e, Cos(nu))))

\* the point at radius r and true anomaly nu of the orbital plane, rotated by R
Heliocentric(R, r, nu) ==
    The({MatVec(R, <<Mul(x, Cos(y)), Mul(x, Sin(y)), 0>>) : x \in {r}, y \in {nu}})

\* one sample of the orbit curve at true anomaly nu
CurvePoint(a, e, R, nu) == The({Heliocentric(R, ConicRadius(a, e, y), y) : y \in {nu}})

\* the full orbit: n samples of nu over [0, 2 pi]
OrbitCurve(a, e, R, n) ==
    The({[k \in 1..n |-> CurvePoint(a, e, X, Linspace(k - 1, n))] : X \in {R}})

\* a faulty mean anomaly: the remainder takes the sign of the dividend (C's fmod)
MeanAnomalyFmod(M0_rad, period, dt_days) ==
    The({IF x = NaN THEN NaN ELSE Sgn(x) * (Abs(x) % TwoPi)
         : x \in {Add(M0_rad, Mul(Div(TwoPi, period), dt_days))}})

\* M = (M0_rad + n * dt_days) % (2 pi), with n = 2 pi / period, for period # 0
MeanAnomaly(M0_rad, period, dt_days) ==
    Mod(Add(M0_rad, Mul(Div(TwoPi, period), dt_days)), TwoPi)

\* a faulty true anomaly: the arguments of arctan2 are exchanged
TrueAnomalySwapped(E, e) ==
    The({Mul(Num(2), Arctan2(Mul(Sqrt(Sub(Scale, e)), Cos(h)),
                             Mul(Sqrt(Add(Scale, e)), Sin(h))))
         : h \in {Half(E)}})

\* nu = 2 * arctan2(sqrt(1 + e) * sin(E/2), sqrt(1 - e) * cos(E/2))
TrueAnomaly(E, e) ==
    The({Mul(Num(2), Arctan2(Mul(Sqrt(Add(Scale, e)), Sin(h)),
                             Mul(Sqrt(Sub(Scale, e)), Cos(h))))
         : h \in {Half(E)}})

\* r = a * (1 - e * np.cos(E))
Radius(a, e, E) == Mul(a, Sub(Scale, Mul(e, Cos(E))))

\* the position dt_days after the epoch
PositionAt(a, e, M0_rad, period, R, dt_days) ==
    The({Heliocentric(R, Radius(a, e, E), TrueAnomaly(E, e))
         : E \in {solve_kepler(MeanAnomaly(M0_rad, period, dt_days), e)}})

\* np.arange(0, duration_days + time_step_days, time_step_days) for positive ints
Arange(duration_days, time_step_days) ==
    LET count == (duration_days + 2 * time_step_days - 1) \div time_step_days
    IN  [k \in 1..count |-> (k - 1) * time_step_days]

\* ------------------------------------------------------------------------
\* The inputs of animate_orbits and plot_orbits
\* ------------------------------------------------------------------------

\* the keys animate_orbits reads with elements[...], in the order it reads them
AnimateKeys == <<"a", "e", "i", "omega", "Omega", "M0", "period">>

\* the keys plot_orbits reads with elements[...], in the order it reads them
PlotKeys == <<"a", "e", "i", "omega", "Omega", "M0">>

\* the first key of keys that the dict elements lacks, or "" if it has them all
MissingKey(elements, keys) ==
    IF \A k \in 1..Len(keys) : keys[k] \in DOMAIN elements
    THEN ""
    ELSE keys[CHOOSE k \in 1..Len(keys) :
                 /\ keys[k] \notin DOMAIN elements
                 /\ \A j \in 1..(k - 1) : keys[j] \in DOMAIN elements]

\* the dict d without the key k
Without(d, k) == [f \in (DOMAIN d) \ {k} |-> d[f]]

\* Earth, the first orbit of orbit.py's example, with its period in days
Earth ==
    [a |-> Num(1), e |-> Frac(167, 10000), i |-> 0, omega |-> Frac(1029, 10),
     Omega |-> 0, M0 |-> 0, period |-> Num(365) + Frac(2563, 10000), epoch |-> 0,
     name |-> "Earth"]

\* an eccentric, inclined orbit with a short period
Comet ==
    [a |-> Num(2), e |-> Frac(5, 10), i |-> Num(30), omega |-> Num(45),
     Omega |-> Num(60), M0 |-> Num(90), period |-> Num(10), epoch |-> 1,
     name |-> "Comet"]

\* records outside the data model: e >= 1, a <= 0, period <= 0
InvalidRecords ==
    { [Comet EXCEPT !.e = Frac(15, 10)],
      [Comet EXCEPT !.a = Num(-1)],
      [Comet EXCEPT !.period = 0] }

\* records that lack a field
PartialRecords ==
    { Without(Comet, "M0"), Without(Comet, "period"), Without(Comet, "epoch") }

Records == {Earth, Comet} \cup InvalidRecords \cup PartialRecords

\* the longest orbital_elements_list
MaxBodies == 2

ElementLists == UNION {[1..n -> Records] : n \in 1..MaxBodies}

\* start_date, a day number (datetime.now() by default)
StartDay == 3

\* duration_days and the largest time_step_days
Duration == 3

MaxStep == 2

\* n_orbit_points, the samples of the full orbit (the code uses 1000)
n_orbit_points == 4

\* the mean anomalies solve_kepler is called with, k * MStep for k = 0 .. NM
MStep == 200

NM == 314

KeplerM == {k * MStep : k \in 0..NM}

\* the eccentricities it is called with, in hundredths; 100 and 150 are out of
\* the contract e < 1
KeplerE == {Frac(k, 100) : k \in {0, 10, 50, 90, 98, 99, 100, 150}}

VARIABLES
    call,     \* the entry point called: "solve_kepler", "animate_orbits" or "plot_orbits"
    kpc,      \* solve_kepler: "loop", "break" (left by the test), "cap" (range exhausted), "done"
    kM,       \* its argument M
    ke,       \* its argument e
    kE,       \* its local E
    kEnew,    \* its local E_new (NaN before the first pass: not yet assigned)
    kiter,    \* the passes of the loop made so far
    kleft,    \* how the loop was left: "none", "break", "cap"
    kret,     \* the value returned (NaN before the return)
    pc,       \* animate_orbits / plot_orbits: the statement reached, "done", or "raised"
    exc,      \* the exception that ended the call, <<>> if none
    orbital_elements_list,
    start_date,
    time_steps,   \* np.arange(0, duration_days + time_step_days, time_step_days)
    dates,        \* start_date + timedelta(days=int(t)) for t in time_steps
    i,            \* the index of the body loop (enumerate, from 0)
    loc,          \* the body loop's locals: a, e, M0_rad, period, R, epoch and the full orbit
    positions,    \* the positions of the body at the time steps done so far
    orbit_data,   \* one entry per finished body: its orbit and its positions
    frames,       \* the animation frames built so far
    fig,          \* animate_orbits: the figure returned, <<>> before;
                  \* plot_orbits: the traces added to the figure so far
    module,       \* get_orbital_elements_for_objects: the module called, "jpl_horizons" or
                  \* "jpl_horizons_aq"
    object_ids,
    names,        \* the names given, None if they are not
    query_date,   \* current_date: datetime.now() at the call
    fetched,      \* what the retrieval of each object done so far has returned
    elements_list,
    returned,     \* the value returned, <<>> before the return
    labels,       \* animate_orbits: the labels given, <<>> when None
    orbit_labels, \* the 'label' of each entry of orbit_data, kept beside it
    req_epoch,    \* get_orbital_elements_horizons: the day of its argument epoch
    api,          \* what the request meets: an exception, or the body of the answer
    lines,        \* parse_horizons_text: text.split('\n')
    line_no,      \* the index of its loops over the lines (from 0)
    parsed,       \* its dict elements
    current_epoch_jd, \* its local current_epoch_jd; 0 stands for None as well, the
                      \* code testing only its truth
    dot_git,      \* push_to_github.py: os.path.exists('.git')
    git_log,      \* the commands run through run_command so far, each with its outcome
    result,       \* the result of run_command the code is about to test
    success,      \* what push_changes returned: "True" or "False", "" before
    exit_status   \* the status main exits with: 0 when it runs to its end, -1 before

kvars == <<kpc, kM, ke, kE, kEnew, kiter, kleft, kret>>

avars == <<pc, exc, orbital_elements_list, start_date, time_steps, dates, i, loc,
           positions, orbit_data, frames, fig>>

hvars == <<module, object_ids, names, query_date, fetched, elements_list, returned>>

lvars == <<labels, orbit_labels>>

pvars == <<req_epoch, api, lines, line_no, parsed, current_epoch_jd>>

gvars == <<dot_git, git_log, result, success, exit_status>>

vars == <<call, kvars, avars, hvars, lvars, pvars, gvars>>

\* the push_to_github.py variables while another function is studied
PushIdle ==
    /\ dot_git = FALSE
    /\ git_log = <<>>
    /\ result = <<>>
    /\ success = ""
    /\ exit_status = -1

\* the get_orbital_elements_horizons variables while another function is studied
ParseIdle ==
    /\ req_epoch = 0
    /\ api = <<>>
    /\ lines = <<>>
    /\ line_no = 0
    /\ parsed = <<>>
    /\ current_epoch_jd = 0

\* animate_orbits called without labels (labels=None), no entry filed yet; and
\* the state of the two variables while another function is studied
LabelsNone ==
    /\ labels = <<>>
    /\ orbit_labels = <<>>

\* the get_orbital_elements_for_objects variables while another function is studied
HorizonsIdle ==
    /\ module = ""
    /\ object_ids = <<>>
    /\ names = <<>>
    /\ query_date = 0
    /\ fetched = <<>>
    /\ elements_list = <<>>
    /\ returned = <<>>

\* the animate_orbits / plot_orbits variables while solve_kepler is studied alone
AnimIdle ==
    /\ pc = "idle"
    /\ exc = <<>>
    /\ orbital_elements_list = <<>>
    /\ start_date = 0
    /\ time_steps = <<>>
    /\ dates = <<>>
    /\ i = 0
    /\ loc = <<>>
    /\ positions = <<>>
    /\ orbit_data = <<>>
    /\ frames = <<>>
    /\ fig = <<>>

\* the solve_kepler variables while animate_orbits / plot_orbits is studied
KeplerIdle ==
    /\ kpc = "idle"
    /\ kM = 0
    /\ ke = 0
    /\ kE = 0
    /\ kEnew = NaN
    /\ kiter = 0
    /\ kleft = "none"
    /\ kret = NaN

\* a call solve_kepler(M, e), after E = M
KeplerInit ==
    /\ call = "solve_kepler"
    /\ kM \in KeplerM
    /\ ke \in KeplerE
    /\ kE = kM
    /\ kEnew = NaN
    /\ kiter = 0
    /\ kpc = "loop"
    /\ kleft = "none"
    /\ kret = NaN
    /\ AnimIdle
    /\ HorizonsIdle
    /\ LabelsNone
    /\ ParseIdle
    /\ PushIdle

\* a faulty pass of the loop: E = E_new is assigned whatever the test says
KeplerUpdateUntested ==
    /\ kpc = "loop"
    /\ kiter < MaxIterations
    /\ kEnew' = KeplerNew(kE, kM, ke)
    /\ kE' = kEnew'
    /\ kiter' = kiter + 1
    /\ UNCHANGED <<call, hvars, lvars, pvars, gvars, kpc, kM, ke, kleft, kret, avars>>

\* one pass of the loop whose test fails: E = E_new
KeplerUpdate ==
    /\ kpc = "loop"
    /\ kiter < MaxIterations
    /\ LET E_new == KeplerNew(kE, kM, ke)
       IN  /\ ~KeplerConverged(kE, E_new)
           /\ kEnew' = E_new
           /\ kE' = E_new
    /\ kiter' = kiter + 1
    /\ UNCHANGED <<call, hvars, lvars, pvars, gvars, kpc, kM, ke, kleft, kret, avars>>

\* one pass of the loop whose test holds: break, E is left as it was
KeplerBreak ==
    /\ kpc = "loop"
    /\ kiter < MaxIterations
    /\ LET E_new == KeplerNew(kE, kM, ke)
       IN  /\ KeplerConverged(kE, E_new)
           /\ kEnew' = E_new
    /\ kiter' = kiter + 1
    /\ kpc' = "break"
    /\ kleft' = "break"
    /\ UNCHANGED <<call, hvars, lvars, pvars, gvars, kM, ke, kE, kret, avars>>

\* range(100) is exhausted: the loop ends without a break
KeplerCap ==
    /\ kpc = "loop"
    /\ kiter = MaxIterations
    /\ kpc' = "cap"
    /\ kleft' = "cap"
    /\ UNCHANGED <<call, hvars, lvars, pvars, gvars, kM, ke, kE, kEnew, kiter, kret, avars>>

\* return E
KeplerReturn ==
    /\ kpc \in {"break", "cap"}
    /\ kret' = kE
    /\ kpc' = "done"
    /\ UNCHANGED <<call, hvars, lvars, pvars, gvars, kM, ke, kE, kEnew, kiter, kleft, avars>>

KeplerNext == KeplerUpdate \/ KeplerBreak \/ KeplerCap \/ KeplerReturn

SpecKepler == KeplerInit /\ [][KeplerNext]_vars

\* the call runs on: a Python function that can take a step takes it
SpecKeplerFair == SpecKepler /\ WF_vars(KeplerNext)

\* |E - e sin E - M|, the residual of Kepler's equation at E
KeplerResidual(E, M, e) == FAbs(KeplerF(E, M, e))

ConvergedWithinTol ==
    (kpc = "done" /\ kleft = "break" /\ ke >= 0 /\ ke < Scale)
        => ~Less(tol, KeplerResidual(kret, kM, ke))

\* C3: solve_kepler always terminates; it makes at most 100 passes of the loop;
\* it goes on to another pass only after an update with |E_new - E| >= tol and
\* leaves by break only on an update with |E_new - E| < tol, so it stops at the
\* first such update; at the cap it returns the latest estimate, the E_new of the
\* last pass; and every call ends by returning its E.
KeplerTerminates ==
    /\ <>(kpc = "done")
    /\ [](kiter <= MaxIterations)
    /\ [][(kpc = "loop" /\ kpc' = "loop")
            => /\ kiter' = kiter + 1
               /\ ~Less(FAbs(Sub(kEnew', kE)), tol)
               /\ kE' = kEnew']_vars
    /\ [][kpc' = "break" => Less(FAbs(Sub(kEnew', kE)), tol)]_vars
    /\ [][kpc' = "cap" => (kiter = MaxIterations /\ kE = kEnew)]_vars
    /\ [][kpc' = "done" => (kpc \in {"break", "cap"} /\ kret' = kE)]_vars

\* a call that ran into the cap and returned a finite estimate
KeplerCapReturned ==
    kpc = "done" /\ kleft = "cap" /\ kiter = MaxIterations /\ IsNum(kret)

\* C4: a value returned at the cap comes with a marker that tells it from a
\* converged result: no call that converges returns that same value.
CapReturnMarked ==
    (kpc = "done" /\ kleft = "cap")
        => \A e2 \in KeplerE :
              ~(KeplerLeft(kret, e2) = "break" /\ solve_kepler(kret, e2) = kret)

\* ------------------------------------------------------------------------
\* animate_orbits (orbit_plotly_animate.py)
\* ------------------------------------------------------------------------

\* the call animate_orbits(orbital_elements_list, None, start_date, duration_days,
\* time_step_days), at the head of the body loop
Init ==
    /\ call = "animate_orbits"
    /\ KeplerIdle
    /\ HorizonsIdle
    /\ LabelsNone
    /\ ParseIdle
    /\ PushIdle
    /\ orbital_elements_list \in ElementLists
    /\ start_date = StartDay
    /\ \E step \in 1..MaxStep : time_steps = Arange(Duration, step)
    /\ dates = [k \in 1..Len(time_steps) |-> start_date + time_steps[k]]
    /\ pc = "for_body"
    /\ exc = <<>>
    /\ i = 0
    /\ loc = <<>>
    /\ positions = <<>>
    /\ orbit_data = <<>>
    /\ frames = <<>>
    /\ fig = <<>>

\* epoch = elements.get('epoch', start_date)
BodyEpoch(elements, start) == IF "epoch" \in DOMAIN elements THEN elements.epoch ELSE start

\* the locals of one pass of the body loop, up to the time loop
BodyLocals(elements, start) ==
    The({[a      |-> elements.a,
          e      |-> elements.e,
          M0_rad |-> Radians(elements.M0),
          period |-> elements.period,
          R      |-> rot,
          orbit  |-> OrbitCurve(elements.a, elements.e, rot, n_orbit_points),
          epoch  |-> BodyEpoch(elements, start)]
         : rot \in {RotationMatrix(elements.i, elements.omega, elements.Omega)}})

\* a pass of the body loop begins: one of elements['a'] ... elements['period']
\* raises KeyError
AnimBodyKeyError ==
    /\ pc = "for_body"
    /\ i < Len(orbital_elements_list)
    /\ MissingKey(orbital_elements_list[i + 1], AnimateKeys) # ""
    /\ exc' = <<"KeyError", MissingKey(orbital_elements_list[i + 1], AnimateKeys)>>
    /\ pc' = "raised"
    /\ UNCHANGED <<call, hvars, lvars, pvars, gvars, orbital_elements_list, start_date, time_steps, dates, i, loc,
                   positions, orbit_data, frames, fig, kvars>>

\* a faulty pass of the body loop: positions = [] is not executed, the list of
\* the body before is carried on
AnimBodyCarry ==
    /\ pc = "for_body"
    /\ i < Len(orbital_elements_list)
    /\ MissingKey(orbital_elements_list[i + 1], AnimateKeys) = ""
    /\ loc' = BodyLocals(orbital_elements_list[i + 1], start_date)
    /\ pc' = "for_t"
    /\ UNCHANGED <<call, hvars, lvars, pvars, gvars, exc, orbital_elements_list, start_date, time_steps, dates, i,
                   positions, orbit_data, frames, fig, kvars>>

\* a pass of the body loop begins: the elements are read, the rotation matrix and
\* the full orbit are computed, the epoch is taken
AnimBody ==
    /\ pc = "for_body"
    /\ i < Len(orbital_elements_list)
    /\ MissingKey(orbital_elements_list[i + 1], AnimateKeys) = ""
    /\ loc' = BodyLocals(orbital_elements_list[i + 1], start_date)
    /\ positions' = <<>>
    /\ pc' = "for_t"
    /\ UNCHANGED <<call, hvars, lvars, pvars, gvars, exc, orbital_elements_list, start_date, time_steps, dates, i,
                   orbit_data, frames, fig, kvars>>

\* the position appended by one pass of the time loop, at current_date
TimeStepPosition(l, current_date) ==
    PositionAt(l.a, l.e, l.M0_rad, l.period, l.R, Num(current_date - l.epoch))

\* a pass of the time loop: n = 2 * np.pi / period raises ZeroDivisionError
AnimTimeZeroDivision ==
    /\ pc = "for_t"
    /\ Len(positions) < Len(time_steps)
    /\ loc.period = 0
    /\ exc' = <<"ZeroDivisionError", "period">>
    /\ pc' = "raised"
    /\ UNCHANGED <<call, hvars, lvars, pvars, gvars, orbital_elements_list, start_date, time_steps, dates, i, loc,
                   positions, orbit_data, frames, fig, kvars>>

\* a pass of the time loop: the position at the next time step is appended
AnimTime ==
    /\ pc = "for_t"
    /\ Len(positions) < Len(time_steps)
    /\ loc.period # 0
    /\ LET t == time_steps[Len(positions) + 1]
       IN  positions' = Append(positions, TimeStepPosition(loc, start_date + t))
    /\ UNCHANGED <<call, hvars, lvars, pvars, gvars, pc, exc, orbital_elements_list, start_date, time_steps, dates, i,
                   loc, orbit_data, frames, fig, kvars>>

\* the decimal digits of str(n), for n >= 0
Digit(d) == <<"0", "1", "2", "3", "4", "5", "6", "7", "8", "9">>[d + 1]

RECURSIVE Str(_)
Str(n) == IF n < 10 THEN Digit(n) ELSE Str(n \div 10) \o Digit(n % 10)

\* f"Object {i+1}", for the loop index i
ObjectLabel(i_) == "Object " \o Str(i_ + 1)

\* 'label': labels[i] if labels and i < len(labels) else f'Object {i+1}'
EntryLabel(lbls, i_) ==
    IF Len(lbls) > 0 /\ i_ < Len(lbls) THEN lbls[i_ + 1] ELSE ObjectLabel(i_)

\* the entry orbit_data.append(...) adds for the body
OrbitEntry(l, pos) == [orbit |-> l.orbit, positions |-> pos]

\* the time loop is over: orbit_data.append(...), and the next body
AnimAppend ==
    /\ pc = "for_t"
    /\ Len(positions) = Len(time_steps)
    /\ orbit_data' = Append(orbit_data, OrbitEntry(loc, positions))
    /\ orbit_labels' = Append(orbit_labels, EntryLabel(labels, i))
    /\ i' = i + 1
    /\ pc' = "for_body"
    /\ UNCHANGED <<call, hvars, pvars, gvars, labels, exc, orbital_elements_list, start_date, time_steps,
                   dates, loc, positions, frames, fig, kvars>>

\* the body loop is over: the frame loop begins
AnimBodiesDone ==
    /\ pc = "for_body"
    /\ i = Len(orbital_elements_list)
    /\ pc' = "for_frame"
    /\ UNCHANGED <<call, hvars, lvars, pvars, gvars, exc, orbital_elements_list, start_date, time_steps, dates, i, loc,
                   positions, orbit_data, frames, fig, kvars>>

\* a faulty frame: every frame shows the last position of each body
FrameLast(frame_idx, date, data) ==
    [name |-> frame_idx,
     date |-> date,
     pos  |-> [b \in 1..Len(data) |-> data[b].positions[Len(data[b].positions)]]]

\* the frame with index frame_idx (from 0): its name, the date of its title and,
\* per body, the current position orbit['positions'][frame_idx]
Frame(frame_idx, date, data) ==
    [name |-> frame_idx,
     date |-> date,
     pos  |-> [b \in 1..Len(data) |-> data[b].positions[frame_idx + 1]]]

\* a pass of the frame loop over enumerate(zip(time_steps, dates))
AnimFrame ==
    /\ pc = "for_frame"
    /\ Len(frames) < Len(time_steps)
    /\ frames' = Append(frames, Frame(Len(frames), dates[Len(frames) + 1], orbit_data))
    /\ UNCHANGED <<call, hvars, lvars, pvars, gvars, pc, exc, orbital_elements_list, start_date, time_steps, dates, i,
                   loc, positions, orbit_data, fig, kvars>>

\* the frame loop is over: the figure is built, shown and returned
AnimReturn ==
    /\ pc = "for_frame"
    /\ Len(frames) = Len(time_steps)
    /\ fig' = [data |-> frames[1], frames |-> frames]
    /\ pc' = "done"
    /\ UNCHANGED <<call, hvars, lvars, pvars, gvars, exc, orbital_elements_list, start_date, time_steps, dates, i, loc,
                   positions, orbit_data, frames, kvars>>

Next ==
    \/ AnimBodyKeyError
    \/ AnimBody
    \/ AnimTimeZeroDivision
    \/ AnimTime
    \/ AnimAppend
    \/ AnimBodiesDone
    \/ AnimFrame
    \/ AnimReturn

Spec == Init /\ [][Next]_vars

\* ------------------------------------------------------------------------
\* plot_orbits (orbit.py; orbit_plotly.py computes the same and draws with plotly)
\* ------------------------------------------------------------------------

\* the call plot_orbits(orbital_elements_list), at the head of the body loop, the
\* Sun drawn at the origin
PlotInit ==
    /\ call = "plot_orbits"
    /\ KeplerIdle
    /\ HorizonsIdle
    /\ LabelsNone
    /\ ParseIdle
    /\ PushIdle
    /\ orbital_elements_list \in ElementLists
    /\ start_date = 0
    /\ time_steps = <<>>
    /\ dates = <<>>
    /\ pc = "plot_body"
    /\ exc = <<>>
    /\ i = 0
    /\ loc = <<>>
    /\ positions = <<>>
    /\ orbit_data = <<>>
    /\ frames = <<>>
    /\ fig = << [label |-> "Sun"] >>

\* r_peri = a * (1 - e); peri_helio = R @ [r_peri, 0, 0]
Periapsis(a, e, R) == MatVec(R, <<Mul(a, Sub(Scale, e)), 0, 0>>)

\* a faulty trace: the rotation composed in the reverse order,
\* R = R_omega @ R_i @ R_Omega
PlotTraceReversed(elements, idx) ==
    The({[label |-> idx + 1,
          curve |-> OrbitCurve(elements.a, elements.e, rot, n_orbit_points),
          peri  |-> Periapsis(elements.a, elements.e, rot)]
         : rot \in {MatMul(MatMul(RotZ(Radians(elements.omega)), RotX(Radians(elements.i))),
                           RotZ(Radians(elements.Omega)))}})

\* what one pass of the body loop draws: the orbit curve with its default label
\* 'Orbit i+1' (here the number i+1), and the periapsis marker
PlotTrace(elements, idx) ==
    The({[label |-> idx + 1,
          curve |-> OrbitCurve(elements.a, elements.e, rot, n_orbit_points),
          peri  |-> Periapsis(elements.a, elements.e, rot)]
         : rot \in {RotationMatrix(elements.i, elements.omega, elements.Omega)}})

\* a pass of the body loop begins: one of elements['a'] ... elements['M0'] raises
\* KeyError
PlotBodyKeyError ==
    /\ pc = "plot_body"
    /\ i < Len(orbital_elements_list)
    /\ MissingKey(orbital_elements_list[i + 1], PlotKeys) # ""
    /\ exc' = <<"KeyError", MissingKey(orbital_elements_list[i + 1], PlotKeys)>>
    /\ pc' = "raised"
    /\ UNCHANGED <<call, hvars, lvars, pvars, gvars, orbital_elements_list, start_date, time_steps, dates, i, loc,
                   positions, orbit_data, frames, fig, kvars>>

\* a pass of the body loop: the elements are read, the curve and the periapsis
\* are computed and drawn
PlotBody ==
    /\ pc = "plot_body"
    /\ i < Len(orbital_elements_list)
    /\ MissingKey(orbital_elements_list[i + 1], PlotKeys) = ""
    /\ fig' = Append(fig, PlotTrace(orbital_elements_list[i + 1], i))
    /\ i' = i + 1
    /\ UNCHANGED <<call, hvars, lvars, pvars, gvars, pc, exc, orbital_elements_list, start_date, time_steps, dates, loc,
                   positions, orbit_data, frames, kvars>>

\* the body loop is over: titles and axes are set, the figure is shown and returned
PlotReturn ==
    /\ pc = "plot_body"
    /\ i = Len(orbital_elements_list)
    /\ pc' = "done"
    /\ UNCHANGED <<call, hvars, lvars, pvars, gvars, exc, orbital_elements_list, start_date, time_steps, dates, i, loc,
                   positions, orbit_data, frames, fig, kvars>>

PlotNext == PlotBodyKeyError \/ PlotBody \/ PlotReturn

SpecPlot == PlotInit /\ [][PlotNext]_vars

\* a call of either entry point on a batch of bodies
SpecBatch == (Init \/ PlotInit) /\ [][Next \/ PlotNext]_vars

\* ------------------------------------------------------------------------
\* The error taxonomy and the batch properties
\* ------------------------------------------------------------------------

\* the fields of a record that the time path uses
TimePathFields == {"a", "e", "i", "omega", "Omega", "M0", "period", "epoch"}

\* the fields of a record that the orbit curve uses
CurveFields == {"a", "e", "i", "omega", "Omega"}

\* InvalidElements: e >= 1, e < 0, a <= 0 or period <= 0
InvalidElements(el) ==
    \/ "e" \in DOMAIN el /\ (el.e >= Scale \/ el.e < 0)
    \/ "a" \in DOMAIN el /\ el.a <= 0
    \/ "period" \in DOMAIN el /\ el.period <= 0

\* the body with index b of the list is the one the call is working on
Current(b) == i + 1 = b

\* the figure of plot_orbits holds the curve of body b, or orbit_data of
\* animate_orbits holds its orbit and positions
Produced(b) ==
    IF call = "plot_orbits" THEN b + 1 <= Len(fig) ELSE b <= Len(orbit_data)

\* C5: a record with e >= 1, e < 0, a <= 0 or period <= 0 is rejected before any
\* propagation step: animate_orbits never reaches the time loop with the rotation
\* and the curve of such a record, and never appends positions for it.
InvalidRejected ==
    \A b \in 1..Len(orbital_elements_list) :
        InvalidElements(orbital_elements_list[b])
            => ~(pc = "for_t" /\ Current(b)) /\ ~Produced(b)

\* C6: animate_orbits computes positions only from a record that has every field
\* of the time path; a missing field is never replaced by another value.
MissingFieldFails ==
    (pc = "for_t" /\ positions # <<>>)
        => TimePathFields \subseteq DOMAIN orbital_elements_list[i + 1]

\* C7: plot_orbits does not fail on a record that has a, e, i, omega and Omega,
\* whether or not it has period and M0.
CurveNeedsNoPeriodNoM0 ==
    \A b \in 1..Len(orbital_elements_list) :
        CurveFields \subseteq DOMAIN orbital_elements_list[b]
            => ~(pc = "raised" /\ Current(b))

\* C8: when the propagation of one body of a batch raises, the curves and the
\* positions of the other bodies that are complete and valid are still produced.
FailureIsolated ==
    pc = "raised"
        => \A b \in 1..Len(orbital_elements_list) :
              ( /\ ~Current(b)
                /\ TimePathFields \subseteq DOMAIN orbital_elements_list[b]
                /\ ~InvalidElements(orbital_elements_list[b]) )
                  => Produced(b)

\* the rotation matrix of a record
RecordRotation(el) == RotationMatrix(el.i, el.omega, el.Omega)

\* the position of a record's body at time step t of a call that starts at start
RecordPosition(el, R, start, t) ==
    PositionAt(el.a, el.e, Radians(el.M0), el.period, R,
               Num((start + t) - BodyEpoch(el, start)))

\* C9: the positions of every body have one entry per time step, in the order of
\* the time steps: a pass of the time loop appends the position at the next time
\* step and changes no entry, and the positions are filed in orbit_data when there
\* is one per time step; frame k has the index k (from 0), is titled with the date
\* of time step k and shows, for every body, entry k of its positions.
TimeSeriesOrdered ==
    /\ [](Len(positions) <= Len(time_steps))
    /\ [][positions' # positions
            => \/ positions' = <<>>
               \/ positions' =
                     Append(positions,
                            RecordPosition(orbital_elements_list[i + 1],
                                           RecordRotation(orbital_elements_list[i + 1]),
                                           start_date, time_steps[Len(positions) + 1]))]_vars
    /\ [][orbit_data' # orbit_data
            => /\ Len(positions) = Len(time_steps)
               /\ Len(orbit_data') = Len(orbit_data) + 1
               /\ orbit_data'[Len(orbit_data')].positions = positions
               /\ \A b \in 1..Len(orbit_data) : orbit_data'[b] = orbit_data[b]]_vars
    /\ [](\A b \in 1..Len(orbit_data) : Len(orbit_data[b].positions) = Len(time_steps))
    /\ [](Len(frames) <= Len(time_steps))
    /\ [](\A k \in 1..Len(frames) :
             /\ frames[k].name = k - 1
             /\ frames[k].date = start_date + time_steps[k]
             /\ Len(frames[k].pos) = Len(orbital_elements_list)
             /\ \A b \in 1..Len(orbital_elements_list) :
                   frames[k].pos[b] = orbit_data[b].positions[k])
    /\ [](pc = "done" => Len(frames) = Len(time_steps) /\ fig.frames = frames)

\* the animation of two bodies is returned, its frames showing a body at
\* different finite positions
TwoBodiesAnimated ==
    /\ pc = "done"
    /\ call = "animate_orbits"
    /\ Len(orbital_elements_list) = 2
    /\ Len(frames) >= 3
    /\ frames[1].pos[1] # frames[2].pos[1]
    /\ frames[2].pos[2] # frames[3].pos[2]
    /\ \A c \in 1..3 : IsNum(frames[3].pos[2][c])

\* the positions of a record's body at the time steps
RecordPositions(el, start, steps) ==
    The({[k \in 1..Len(steps) |-> RecordPosition(el, R, start, steps[k])]
         : R \in {RecordRotation(el)}})

\* what animate_orbits files for a record that is alone in the batch
AloneEntry(el, start, steps) ==
    [orbit     |-> OrbitCurve(el.a, el.e, RecordRotation(el), n_orbit_points),
     positions |-> RecordPositions(el, start, steps)]

\* what plot_orbits draws for a record that is alone in the batch
AloneTrace(el) == PlotTrace(el, 0)

\* C10: the orbit curve and the positions a call files for a body are those of the
\* body taken alone, computed from its own record and the query times only,
\* whatever the other bodies of the batch are and wherever the body stands in it;
\* what is filed for a body is not changed by the bodies that follow, and the
\* records themselves are never changed.
BodiesIndependent ==
    /\ [][orbit_data' # orbit_data
            => /\ orbit_data' =
                     Append(orbit_data,
                            AloneEntry(orbital_elements_list[i + 1], start_date, time_steps))
               /\ i' = Len(orbit_data')]_vars
    /\ [][(call = "plot_orbits" /\ fig' # fig)
            => /\ Len(fig') = Len(fig) + 1
               /\ fig'[Len(fig')].curve = AloneTrace(orbital_elements_list[i + 1]).curve
               /\ fig'[Len(fig')].peri = AloneTrace(orbital_elements_list[i + 1]).peri
               /\ \A b \in 1..Len(fig) : fig'[b] = fig[b]
               /\ i' = Len(fig)]_vars
    /\ [][orbital_elements_list' = orbital_elements_list]_vars

\* two different bodies of one batch have been propagated, the second one to
\* finite positions that are not those of the first
TwoBodiesPropagated ==
    /\ call = "animate_orbits"
    /\ Len(orbit_data) = 2
    /\ orbital_elements_list[1] # orbital_elements_list[2]
    /\ orbit_data[1].positions # orbit_data[2].positions
    /\ \A c \in 1..3 : IsNum(orbit_data[2].positions[1][c])

\* ------------------------------------------------------------------------
\* animate_orbits on one body, from dates around its epoch, in steps of a period
\* ------------------------------------------------------------------------

\* the period of Comet in whole days, the time_step_days of these calls
PeriodStep == Comet.period \div Scale

\* the calls run over this many periods
MaxPeriods == 2

\* start_date is up to this many days before or after the epoch
MaxBefore == 3

\* the bodies of these calls: Earth and Comet, Comet at periapsis at its epoch,
\* on a circle, in the reference plane, and two records that make the call raise
PeriodRecords ==
    { Earth, Comet, [Comet EXCEPT !.M0 = 0], [Comet EXCEPT !.e = 0],
      [Comet EXCEPT !.M0 = 0, !.i = 0],
      Without(Comet, "period"), [Comet EXCEPT !.period = 0] }

\* the call animate_orbits([el], None, start_date, MaxPeriods * PeriodStep,
\* PeriodStep), at the head of the body loop
PeriodInit ==
    /\ call = "animate_orbits"
    /\ KeplerIdle
    /\ HorizonsIdle
    /\ LabelsNone
    /\ ParseIdle
    /\ PushIdle
    /\ \E el \in PeriodRecords, d \in (-MaxBefore)..MaxBefore :
          /\ orbital_elements_list = <<el>>
          /\ start_date = el.epoch + d
    /\ time_steps = Arange(MaxPeriods * PeriodStep, PeriodStep)
    /\ dates = [k \in 1..Len(time_steps) |-> start_date + time_steps[k]]
    /\ pc = "for_body"
    /\ exc = <<>>
    /\ i = 0
    /\ loc = <<>>
    /\ positions = <<>>
    /\ orbit_data = <<>>
    /\ frames = <<>>
    /\ fig = <<>>

SpecPeriods == PeriodInit /\ [][Next]_vars

\* the mean anomaly of a record's body at time step t of a call that starts at start
RecordAnomaly(el, start, t) ==
    MeanAnomaly(Radians(el.M0), el.period, Num((start + t) - BodyEpoch(el, start)))

\* the distance of two angles of [0, 2 pi) on the circle
CircDist(x, y) == IF Abs(x - y) <= TwoPi - Abs(x - y) THEN Abs(x - y) ELSE TwoPi - Abs(x - y)

\* two positions are equal to within d in every coordinate
Near(p, q, d) == \A c \in 1..3 : IsNum(p[c]) /\ IsNum(q[c]) /\ Abs(p[c] - q[c]) <= d

OrientAngles == {Num(0), Num(60), Num(135), Num(270)}

\* Comet's orbit in every orientation (i, omega, Omega) made of these angles
OrientedRecords ==
    { [Comet EXCEPT !.i = incl, !.omega = argp, !.Omega = node]
      : incl \in OrientAngles, argp \in OrientAngles, node \in OrientAngles }

\* the bodies of the calls of plot_orbits: those above, and a record without M0
CurveRecords == PeriodRecords \cup OrientedRecords \cup {Without(Comet, "M0")}

\* the call animate_orbits([el], None, el['epoch'], MaxPeriods * PeriodStep,
\* PeriodStep) on an oriented orbit, at the head of the body loop
OrientInit ==
    /\ call = "animate_orbits"
    /\ KeplerIdle
    /\ HorizonsIdle
    /\ LabelsNone
    /\ ParseIdle
    /\ PushIdle
    /\ \E el \in OrientedRecords :
          /\ orbital_elements_list = <<el>>
          /\ start_date = el.epoch
    /\ time_steps = Arange(MaxPeriods * PeriodStep, PeriodStep)
    /\ dates = [k \in 1..Len(time_steps) |-> start_date + time_steps[k]]
    /\ pc = "for_body"
    /\ exc = <<>>
    /\ i = 0
    /\ loc = <<>>
    /\ positions = <<>>
    /\ orbit_data = <<>>
    /\ frames = <<>>
    /\ fig = <<>>

\* the call plot_orbits([el]), at the head of the body loop
PlotOneInit ==
    /\ call = "plot_orbits"
    /\ KeplerIdle
    /\ HorizonsIdle
    /\ LabelsNone
    /\ ParseIdle
    /\ PushIdle
    /\ \E el \in CurveRecords : orbital_elements_list = <<el>>
    /\ start_date = 0
    /\ time_steps = <<>>
    /\ dates = <<>>
    /\ pc = "plot_body"
    /\ exc = <<>>
    /\ i = 0
    /\ loc = <<>>
    /\ positions = <<>>
    /\ orbit_data = <<>>
    /\ frames = <<>>
    /\ fig = << [label |-> "Sun"] >>

\* a call of either entry point on one body
SpecOneBody == (PeriodInit \/ OrientInit \/ PlotOneInit) /\ [][Next \/ PlotNext]_vars

\* the length of a 3-vector
Norm(p) == Sqrt(Dot3(p, p))

\* the record has a > 0 and 0 <= e < 1
ValidShape(el) == el.a > 0 /\ el.e >= 0 /\ el.e < Scale

\* the curve a call holds for its body b, <<>> if it holds none
CurveOf(b) ==
    IF call = "plot_orbits"
    THEN IF b + 1 <= Len(fig) THEN fig[b + 1].curve ELSE <<>>
    ELSE IF b <= Len(orbit_data) THEN orbit_data[b].orbit ELSE <<>>

\* the rounding that the frame transform and the square root leave in a length
\* of a few units, in units of the number format
RoundOff == 8

\* x is y to within the rounding
Rounds(x, y) == IsNum(x) /\ IsNum(y) /\ Abs(x - y) <= RoundOff

\* C12: for a > 0 and 0 <= e < 1 every point of the orbit curve a call holds lies
\* at the radius r = a (1 - e^2) / (1 + e cos nu) of its sample nu, and
\* a (1 - e) <= r <= a (1 + e), to within the rounding; for e = 0 the radius is a.
RadiusBounded ==
    \A b \in 1..Len(orbital_elements_list) :
        ValidShape(orbital_elements_list[b])
            => \A k \in 1..Len(CurveOf(b)) :
                  /\ Rounds(Norm(CurveOf(b)[k]),
                            ConicRadius(orbital_elements_list[b].a, orbital_elements_list[b].e,
                                        Linspace(k - 1, Len(CurveOf(b)))))
                  /\ Norm(CurveOf(b)[k]) + RoundOff
                        >= Mul(orbital_elements_list[b].a, Sub(Scale, orbital_elements_list[b].e))
                  /\ Norm(CurveOf(b)[k]) - RoundOff
                        <= Mul(orbital_elements_list[b].a, Add(Scale, orbital_elements_list[b].e))
                  /\ orbital_elements_list[b].e = 0
                        => Rounds(Norm(CurveOf(b)[k]), orbital_elements_list[b].a)

\* the curve of an eccentric orbit is held, its points at different radii
EccentricCurveHeld ==
    /\ Len(CurveOf(1)) = n_orbit_points
    /\ ValidShape(orbital_elements_list[1])
    /\ orbital_elements_list[1].e > 0
    /\ ~Rounds(Norm(CurveOf(1)[1]), Norm(CurveOf(1)[2]))

\* the body b of the call is valid, has M0 = 0, and the call starts at its epoch
AtPeriapsis(b) ==
    /\ ValidShape(orbital_elements_list[b])
    /\ orbital_elements_list[b].M0 = 0
    /\ start_date = BodyEpoch(orbital_elements_list[b], start_date)

\* C13: for valid elements with M0 = 0 queried at t = epoch the time path yields
\* M = 0, E = 0, nu = 0 and r = a (1 - e), and the position filed for the first
\* time step is the periapsis marker R (a (1 - e), 0, 0) of plot_orbits; with
\* i = 0 its z is 0; for Earth (a = 1, e = 0.0167) its length is 0.98333.
PeriapsisAtEpoch ==
    \A b \in 1..Len(orbit_data) :
        AtPeriapsis(b)
            => /\ time_steps[1] = 0
               /\ RecordAnomaly(orbital_elements_list[b], start_date, time_steps[1]) = 0
               /\ solve_kepler(0, orbital_elements_list[b].e) = 0
               /\ TrueAnomaly(0, orbital_elements_list[b].e) = 0
               /\ Radius(orbital_elements_list[b].a, orbital_elements_list[b].e, 0)
                     = Mul(orbital_elements_list[b].a, Sub(Scale, orbital_elements_list[b].e))
               /\ orbit_data[b].positions[1]
                     = Periapsis(orbital_elements_list[b].a, orbital_elements_list[b].e,
                                 RecordRotation(orbital_elements_list[b]))
               /\ orbital_elements_list[b].i = 0 => orbit_data[b].positions[1][3] = 0
               /\ orbital_elements_list[b] = Earth
                     => Rounds(Norm(orbit_data[b].positions[1]), Frac(98333, 100000))

\* Earth's positions have been computed by a call that starts at Earth's epoch
EarthAtEpoch ==
    /\ call = "animate_orbits"
    /\ orbital_elements_list = <<Earth>>
    /\ Len(orbit_data) = 1
    /\ AtPeriapsis(1)
    /\ orbit_data[1].positions[1] # orbit_data[1].positions[2]

\* the point of the orbital plane at the k-th of n samples of the true anomaly
PlanePoint(a, e, k, n) ==
    The({<<Mul(r, Cos(nu)), Mul(r, Sin(nu)), 0>>
         : r \in {ConicRadius(a, e, Linspace(k - 1, n))}, nu \in {Linspace(k - 1, n)}})

\* the vector v turned by R_omega first, then by R_i, then by R_Omega
TurnedInOrder(el, v) ==
    MatVec(RotZ(Radians(el.Omega)), MatVec(RotX(Radians(el.i)), MatVec(RotZ(Radians(el.omega)), v)))

\* C14: for a record that both entry points accept, the curve a call holds is the
\* curve plot_orbits draws and the curve animate_orbits files, for the same sample
\* count; and each of its points is the point of the orbital plane turned by
\* R_omega first, then R_i, then R_Omega, to within the rounding.
SameCurveEverywhere ==
    \A b \in 1..Len(orbital_elements_list) :
        (MissingKey(orbital_elements_list[b], AnimateKeys) = "" /\ CurveOf(b) # <<>>)
            => /\ CurveOf(b) = PlotTrace(orbital_elements_list[b], 0).curve
               /\ CurveOf(b) = BodyLocals(orbital_elements_list[b], start_date).orbit
               /\ ValidShape(orbital_elements_list[b])
                     => \A k \in 1..Len(CurveOf(b)) :
                           Near(CurveOf(b)[k],
                                TurnedInOrder(orbital_elements_list[b],
                                              PlanePoint(orbital_elements_list[b].a,
                                                         orbital_elements_list[b].e,
                                                         k, Len(CurveOf(b)))),
                                RoundOff)

\* animate_orbits holds the curve of an orbit whose three angles are not 0 and
\* whose omega and Omega differ
InclinedCurveFiled ==
    /\ call = "animate_orbits"
    /\ Len(orbit_data) = 1
    /\ orbital_elements_list[1].i = Num(60)
    /\ orbital_elements_list[1].omega = Num(135)
    /\ orbital_elements_list[1].Omega = Num(270)
    /\ \A k \in 1..n_orbit_points : \A c \in 1..3 : IsNum(CurveOf(1)[k][c])

\* the transpose of a 3x3 matrix
Transpose(A) == [r \in 1..3 |-> [c \in 1..3 |-> A[c][r]]]

\* the 3x3 identity
Identity == << <<Scale, 0, 0>>, <<0, Scale, 0>>, <<0, 0, Scale>> >>

\* the determinant of a 3x3 matrix, along its first row
Det3(A) ==
    Add(Sub(Mul(A[1][1], Sub(Mul(A[2][2], A[3][3]), Mul(A[2][3], A[3][2]))),
            Mul(A[1][2], Sub(Mul(A[2][1], A[3][3]), Mul(A[2][3], A[3][1])))),
        Mul(A[1][3], Sub(Mul(A[2][1], A[3][2]), Mul(A[2][2], A[3][1]))))

\* C15: the matrix R that animate_orbits composes for a body satisfies
\* R^T R = I and det R = +1, and the periapsis marker R (r, 0, 0) that plot_orbits
\* draws has the length |r| of the vector it comes from, all to within the rounding.
RotationOrthogonal ==
    /\ (call = "animate_orbits" /\ pc = "for_t")
          => /\ \A r \in 1..3 : \A c \in 1..3 :
                   Rounds(MatMul(Transpose(loc.R), loc.R)[r][c], Identity[r][c])
             /\ Rounds(Det3(loc.R), Scale)
    /\ call = "plot_orbits"
          => \A b \in 1..(Len(fig) - 1) :
                Rounds(Norm(fig[b + 1].peri),
                       Abs(Mul(orbital_elements_list[b].a,
                               Sub(Scale, orbital_elements_list[b].e))))

\* animate_orbits has composed the matrix of an orbit whose three angles are not 0
InclinedMatrixComposed ==
    /\ call = "animate_orbits"
    /\ pc = "for_t"
    /\ orbital_elements_list[1].i = Num(135)
    /\ orbital_elements_list[1].omega = Num(60)
    /\ orbital_elements_list[1].Omega = Num(135)
    /\ \A r \in 1..3 : \A c \in 1..3 : IsNum(loc.R[r][c]) /\ loc.R[r][c] # Identity[r][c]

\* C16: the curve held for a valid record has exactly the requested number of
\* points, all finite; its samples of nu start at 0, end at 2 pi and are evenly
\* spaced, to within the rounding; it is closed, its first and its last point being the
\* periapsis, to within the rounding; and it is the sequence that computing it
\* again for the same record yields.
CurveClosed ==
    \A b \in 1..Len(orbital_elements_list) :
        (ValidShape(orbital_elements_list[b]) /\ CurveOf(b) # <<>>)
            => /\ Len(CurveOf(b)) = n_orbit_points
               /\ \A k \in 1..n_orbit_points : \A c \in 1..3 : IsNum(CurveOf(b)[k][c])
               /\ Linspace(0, n_orbit_points) = 0
               /\ Linspace(n_orbit_points - 1, n_orbit_points) = TwoPi
               /\ \A k \in 1..(n_orbit_points - 1) :
                     Abs((Linspace(k, n_orbit_points) - Linspace(k - 1, n_orbit_points))
                         - Linspace(1, n_orbit_points)) <= RoundOff
               /\ Near(CurveOf(b)[1], CurveOf(b)[n_orbit_points], RoundOff)
               /\ Near(CurveOf(b)[1],
                       Periapsis(orbital_elements_list[b].a, orbital_elements_list[b].e,
                                 RecordRotation(orbital_elements_list[b])),
                       RoundOff)
               /\ CurveOf(b) = OrbitCurve(orbital_elements_list[b].a, orbital_elements_list[b].e,
                                          RecordRotation(orbital_elements_list[b]),
                                          n_orbit_points)

\* plot_orbits has drawn the curve of an eccentric orbit: its second point is
\* not its first
CurveDrawn ==
    /\ call = "plot_orbits"
    /\ Len(fig) = 2
    /\ ValidShape(orbital_elements_list[1])
    /\ orbital_elements_list[1].e > 0
    /\ ~Near(fig[2].curve[1], fig[2].curve[2], RoundOff)

\* C17: for a body on a circular orbit (e = 0) with a period that is not zero,
\* at every time step of the call: the first pass of solve_kepler's loop breaks
\* and the call returns exactly M; the derivative it divides by is 1; the true
\* anomaly is M, to within the rounding; the radius a (1 - e cos E) is exactly a
\* and the recorded position lies at distance a from the Sun, to within the
\* rounding; and the call raises nothing.
CircularOrbit ==
    (/\ call = "animate_orbits"
     /\ Len(orbital_elements_list) = 1
     /\ MissingKey(orbital_elements_list[1], AnimateKeys) = ""
     /\ orbital_elements_list[1].e = 0
     /\ orbital_elements_list[1].a > 0
     /\ orbital_elements_list[1].period # 0)
        => /\ exc = <<>>
           /\ \A b \in 1..Len(orbit_data) : \A j \in 1..Len(time_steps) :
                 LET el == orbital_elements_list[b]
                     M == RecordAnomaly(el, start_date, time_steps[j])
                 IN  /\ KeplerPass(<<M, "none">>, M, el.e) = <<M, "break">>
                     /\ solve_kepler(M, el.e) = M
                     /\ KeplerDf(M, el.e) = Scale
                     /\ Rounds(TrueAnomaly(M, el.e), M)
                     /\ Radius(el.a, el.e, M) = el.a
                     /\ Rounds(Norm(orbit_data[b].positions[j]), el.a)

\* a body on a circular orbit has been propagated to three different positions,
\* one of them in the second half of its orbit
CircularPropagated ==
    /\ call = "animate_orbits"
    /\ Len(orbit_data) = 1
    /\ orbital_elements_list[1].e = 0
    /\ Len(orbit_data[1].positions) = 3
    /\ orbit_data[1].positions[1] # orbit_data[1].positions[2]
    /\ orbit_data[1].positions[2] # orbit_data[1].positions[3]
    /\ RecordAnomaly(orbital_elements_list[1], start_date, time_steps[2]) > Pi

\* C18: every frame animate_orbits has generated is for a day offset of at most
\* duration_days, and the date of its title lies in
\* [start_date, start_date + duration_days].
FramesInWindow ==
    call = "animate_orbits"
        => \A k \in 1..Len(frames) :
              /\ time_steps[frames[k].name + 1] <= Duration
              /\ frames[k].date >= start_date
              /\ frames[k].date <= start_date + Duration

\* ------------------------------------------------------------------------
\* get_orbital_elements_for_objects and get_current_orbital_elements
\* (jpl_horizons.py; jpl_horizons_aq.py holds the same two functions over
\* astroquery)
\* ------------------------------------------------------------------------

\* Python's None
None == [NoneType |-> TRUE]

\* the truth value of a value that is None or a dict with keys: `if elements:`
Truthy(x) == x # None

\* elements.get(key, default)
Get(elements, key, default) == IF key \in DOMAIN elements THEN elements[key] ELSE default

\* names = [f"Object {i+1}" for i in range(len(object_ids))], when names is None
DefaultNames(ids) == [k \in 1..Len(ids) |-> ObjectLabel(k - 1)]

\* a faulty name: the one at the index the record will have in elements_list
NameFiled(nm, i_) ==
    IF Len(elements_list) < Len(nm) THEN nm[Len(elements_list) + 1]
    ELSE ObjectLabel(Len(elements_list))

\* name = names[i] if i < len(names) else f"Object {i+1}"
NameAt(nm, i_) == IF i_ < Len(nm) THEN nm[i_ + 1] ELSE ObjectLabel(i_)

\* format_elements_for_animation(elements, epoch_datetime, name)
format_elements_for_animation(elements, epoch_datetime, name) ==
    IF ~Truthy(elements)
    THEN None
    ELSE [a      |-> Get(elements, "semi_major_axis", 0),
          e      |-> Get(elements, "eccentricity", 0),
          i      |-> Get(elements, "inclination", 0),
          omega  |-> Get(elements, "argument_periapsis", 0),
          Omega  |-> Get(elements, "longitude_ascending_node", 0),
          M0     |-> Get(elements, "mean_anomaly", 0),
          period |-> Get(elements, "period", Frac(36525, 100)),
          epoch  |-> epoch_datetime,
          name   |-> name]

\* the two modules that hold the functions
Modules == {"jpl_horizons", "jpl_horizons_aq"}

\* the object ids asked for: Earth and Halley's Comet
ObjectIds == {"399", "90000001"}

\* the names given for them
ObjectNames == {"Earth", "Halley's Comet"}

\* the orbit the service knows for an object id
KnownOrbit(obj_id) == IF obj_id = "399" THEN Earth ELSE Comet

\* the elements of a known orbit, under the keys both modules give them; of the
\* other keys they fill in, format_elements_for_animation reads none
HorizonsElements(obj_id) ==
    [semi_major_axis          |-> KnownOrbit(obj_id).a,
     eccentricity             |-> KnownOrbit(obj_id).e,
     inclination              |-> KnownOrbit(obj_id).i,
     argument_periapsis       |-> KnownOrbit(obj_id).omega,
     longitude_ascending_node |-> KnownOrbit(obj_id).Omega,
     mean_anomaly             |-> KnownOrbit(obj_id).M0,
     period                   |-> KnownOrbit(obj_id).period]

\* what a retrieval can meet. jpl_horizons: the request fails, the service
\* answers with an ERROR, the answer has no ephemeris section, no key = value
\* pair is parsed from it, only EC is parsed from it, or the elements are
\* parsed. jpl_horizons_aq: astroquery raises, the table has no row, or the row
\* is converted.
Responses(mod, obj_id) ==
    IF mod = "jpl_horizons"
    THEN {[kind |-> "RequestException"],
          [kind |-> "ERROR"],
          [kind |-> "no_ephemeris"],
          [kind |-> "parsed", found |-> FALSE],
          [kind |-> "parsed", found |-> TRUE,
           elements |-> [eccentricity |-> KnownOrbit(obj_id).e]],
          [kind |-> "parsed", found |-> TRUE, elements |-> HorizonsElements(obj_id)]}
    ELSE {[kind |-> "Exception"],
          [kind |-> "no_rows"],
          [kind |-> "row", elements |-> HorizonsElements(obj_id)]}

\* get_orbital_elements_horizons(obj_id, epoch_str): None on every failure, and
\* `return elements if elements else None` after the parse
get_orbital_elements_horizons(response) ==
    IF response.kind = "parsed" /\ response.found THEN response.elements ELSE None

\* get_orbital_elements_astroquery(obj_id, current_date): None when there is no
\* row and on every exception
get_orbital_elements_astroquery(response) ==
    IF response.kind = "row" THEN response.elements ELSE None

\* the retrieval of the module called
Retrieve(mod, response) ==
    IF mod = "jpl_horizons"
    THEN get_orbital_elements_horizons(response)
    ELSE get_orbital_elements_astroquery(response)

\* the most objects asked for in one call
MaxObjects == 2

\* the lists of at most n elements of S
ListsOf(S, n) == UNION {[1..k -> S] : k \in 0..n}

\* the state of a call of either function at the head of its loop, after
\* `if names is None` has put the default names in place
HorizonsLoopHead ==
    /\ KeplerIdle
    /\ module \in Modules
    /\ query_date = StartDay
    /\ pc = "for_obj"
    /\ exc = <<>>
    /\ orbital_elements_list = <<>>
    /\ start_date = 0
    /\ time_steps = <<>>
    /\ dates = <<>>
    /\ i = 0
    /\ loc = <<>>
    /\ positions = <<>>
    /\ orbit_data = <<>>
    /\ frames = <<>>
    /\ fig = <<>>
    /\ fetched = <<>>
    /\ elements_list = <<>>
    /\ returned = <<>>
    /\ LabelsNone
    /\ ParseIdle
    /\ PushIdle

\* the call get_orbital_elements_for_objects(object_ids, names)
HorizonsInit ==
    /\ call = "get_orbital_elements_for_objects"
    /\ object_ids \in ListsOf(ObjectIds, MaxObjects)
    /\ names \in ListsOf(ObjectNames, MaxObjects) \cup {DefaultNames(object_ids)}
    /\ HorizonsLoopHead

\* the call get_current_orbital_elements(), which calls
\* get_orbital_elements_for_objects(['399', '90000001'], ['Earth', "Halley's Comet"])
CurrentInit ==
    /\ call = "get_current_orbital_elements"
    /\ object_ids = <<"399", "90000001">>
    /\ names = <<"Earth", "Halley's Comet">>
    /\ HorizonsLoopHead

\* a pass of the loop over the object ids in which the retrieval and the
\* formatting give a record: elements_list.append(formatted)
HorizonsAppend ==
    /\ pc = "for_obj"
    /\ i < Len(object_ids)
    /\ \E response \in Responses(module, object_ids[i + 1]) :
          LET name == NameAt(names, i)
              elements == Retrieve(module, response)
              formatted == format_elements_for_animation(elements, query_date, name)
          IN  /\ Truthy(elements)
              /\ Truthy(formatted)
              /\ elements_list' = Append(elements_list, formatted)
              /\ fetched' = Append(fetched, elements)
    /\ i' = i + 1
    /\ UNCHANGED <<call, kvars, lvars, pvars, gvars, pc, exc, orbital_elements_list, start_date, time_steps, dates,
                   loc, positions, orbit_data, frames, fig, module, object_ids, names,
                   query_date, returned>>

\* a pass of the loop in which the retrieval gives nothing: the failure is
\* printed and the loop goes on
HorizonsSkip ==
    /\ pc = "for_obj"
    /\ i < Len(object_ids)
    /\ \E response \in Responses(module, object_ids[i + 1]) :
          LET elements == Retrieve(module, response)
          IN  /\ ~Truthy(elements)
              /\ fetched' = Append(fetched, elements)
    /\ i' = i + 1
    /\ UNCHANGED <<call, kvars, lvars, pvars, gvars, pc, exc, orbital_elements_list, start_date, time_steps, dates,
                   loc, positions, orbit_data, frames, fig, module, object_ids, names,
                   query_date, elements_list, returned>>

\* get_orbital_elements_for_objects: return elements_list
HorizonsReturn ==
    /\ call = "get_orbital_elements_for_objects"
    /\ pc = "for_obj"
    /\ i = Len(object_ids)
    /\ returned' = elements_list
    /\ pc' = "done"
    /\ UNCHANGED <<call, kvars, lvars, pvars, gvars, exc, orbital_elements_list, start_date, time_steps, dates, i,
                   loc, positions, orbit_data, frames, fig, module, object_ids, names,
                   query_date, fetched, elements_list>>

\* get_current_orbital_elements:
\* return elements[0] if len(elements) > 0 else None,
\*        elements[1] if len(elements) > 1 else None
CurrentReturn ==
    /\ call = "get_current_orbital_elements"
    /\ pc = "for_obj"
    /\ i = Len(object_ids)
    /\ returned' = <<IF Len(elements_list) > 0 THEN elements_list[1] ELSE None,
                     IF Len(elements_list) > 1 THEN elements_list[2] ELSE None>>
    /\ pc' = "done"
    /\ UNCHANGED <<call, kvars, lvars, pvars, gvars, exc, orbital_elements_list, start_date, time_steps, dates, i,
                   loc, positions, orbit_data, frames, fig, module, object_ids, names,
                   query_date, fetched, elements_list>>

HorizonsNext == HorizonsAppend \/ HorizonsSkip \/ HorizonsReturn \/ CurrentReturn

SpecHorizons == (HorizonsInit \/ CurrentInit) /\ [][HorizonsNext]_vars

\* the name the record of the object at position k (from 1) of object_ids is to carry
OwnName(k) == IF k <= Len(names) THEN names[k] ELSE ObjectLabel(k - 1)

RECURSIVE RetrievedRecords(_)
\* the records of those of the first k objects whose retrieval gave elements, in
\* the order of object_ids, each under its own name
RetrievedRecords(k) ==
    IF k = 0
    THEN <<>>
    ELSE IF fetched[k] = None
    THEN RetrievedRecords(k - 1)
    ELSE Append(RetrievedRecords(k - 1),
                format_elements_for_animation(fetched[k], query_date, OwnName(k)))

\* C19: get_orbital_elements_for_objects, in either module, raises nothing
\* whatever retrievals fail; after each pass of its loop elements_list holds
\* exactly the records of the objects retrieved so far, in the order of
\* object_ids, each carrying the name at its object's own index in names, or
\* 'Object k+1' where names is too short; and that list is what it returns.
FailedObjectsSkipped ==
    call = "get_orbital_elements_for_objects"
        => /\ exc = <<>>
           /\ pc \in {"for_obj", "done"}
           /\ Len(fetched) = i
           /\ elements_list = RetrievedRecords(i)
           /\ pc = "done"
                 => /\ i = Len(object_ids)
                    /\ returned = RetrievedRecords(Len(object_ids))
                    /\ \A k \in 1..Len(returned) :
                          \E j \in k..Len(object_ids) :
                              /\ fetched[j] # None
                              /\ returned[k].name = OwnName(j)
                              /\ returned[k].e = KnownOrbit(object_ids[j]).e

\* a call has returned the record of its second object alone, the retrieval of
\* the first having failed, under the second name given
SecondObjectAlone ==
    /\ call = "get_orbital_elements_for_objects"
    /\ pc = "done"
    /\ Len(object_ids) = 2
    /\ names = <<"Earth", "Halley's Comet">>
    /\ fetched[1] = None
    /\ Len(returned) = 1
    /\ returned[1].name = "Halley's Comet"

\* C20: get_current_orbital_elements returns a pair whose first component is
\* Earth's record, or None if Earth's retrieval failed, and whose second
\* component is Halley's record, or None if Halley's retrieval failed.
EarthThenHalley ==
    (call = "get_current_orbital_elements" /\ pc = "done")
        => /\ Len(returned) = 2
           /\ returned[1] = format_elements_for_animation(fetched[1], query_date, "Earth")
           /\ returned[2] =
                 format_elements_for_animation(fetched[2], query_date, "Halley's Comet")

\* ------------------------------------------------------------------------
\* The documented pipeline:
\* orbits = get_orbital_elements_for_objects(object_ids, names)
\* animate_orbits(orbits, names, duration_days=..., time_step_days=...)
\* ------------------------------------------------------------------------

\* the call get_orbital_elements_for_objects(object_ids, names) of the pipeline,
\* names being a list of one name per object id
PipelineInit ==
    /\ call = "get_orbital_elements_for_objects"
    /\ object_ids \in ListsOf(ObjectIds, MaxObjects)
    /\ names \in [1..Len(object_ids) -> ObjectNames]
    /\ HorizonsLoopHead

\* the list returned is handed to animate_orbits, with names as its labels
PipelineAnimate ==
    /\ call = "get_orbital_elements_for_objects"
    /\ pc = "done"
    /\ call' = "animate_orbits"
    /\ orbital_elements_list' = returned
    /\ labels' = names
    /\ start_date' = query_date
    /\ time_steps' = Arange(Duration, MaxStep)
    /\ dates' = [k \in 1..Len(time_steps') |-> start_date' + time_steps'[k]]
    /\ i' = 0
    /\ pc' = "for_body"
    /\ UNCHANGED <<kvars, hvars, pvars, gvars, orbit_labels, exc, loc, positions, orbit_data, frames, fig>>

\* the records handed over hold every field and a period that is not zero, so
\* of the steps of animate_orbits those that raise are left out
PipelineNext ==
    \/ HorizonsAppend
    \/ HorizonsSkip
    \/ HorizonsReturn
    \/ PipelineAnimate
    \/ AnimBody
    \/ AnimTime
    \/ AnimAppend
    \/ AnimBodiesDone
    \/ AnimFrame
    \/ AnimReturn

SpecPipeline == PipelineInit /\ [][PipelineNext]_vars

\* C21: in the pipeline, every entry animate_orbits files carries as its label
\* the name of the record it was computed from.
OwnLabels ==
    call = "animate_orbits"
        => \A b \in 1..Len(orbit_labels) : orbit_labels[b] = orbital_elements_list[b].name

\* ------------------------------------------------------------------------
\* get_orbital_elements_horizons, parse_horizons_json and parse_horizons_text
\* (jpl_horizons.py)
\* ------------------------------------------------------------------------

\* elements[key] = val
Put(d, key, val) == [f \in (DOMAIN d) \cup {key} |-> IF f = key THEN val ELSE d[f]]

\* The answers of the service give lengths in km and the period in seconds.
\* The numbers of the model count lengths in 10^6 km and the period in 10^6 s,
\* which keeps them inside the format: 1e8 km is 100 and 86400 s is 0.0864.

\* the divisor of `val / 1e8`
HundredMillionKm == Num(100)

\* the divisor of `val / 86400.0`
SecondsPerDay == Frac(864, 10000)

\* the astronomical unit, 149,597,870.7 km
AstronomicalUnit == Num(149) + Frac(5979, 10000)

\* the keys of an answer that the pattern ([A-Z]+)\s*=\s*([0-9E\+\-\.]+) finds:
\* "Tp" is not one, its p being no capital
RegexKeys == {"EC", "QR", "IN", "OM", "W", "N", "MA", "TA", "A", "AD", "PR"}

\* the entry of elements the if / elif chain fills for a key
ElementName(key) ==
    CASE key = "EC" -> "eccentricity"
      [] key = "QR" -> "periapsis_dist"
      [] key = "IN" -> "inclination"
      [] key = "OM" -> "longitude_ascending_node"
      [] key = "W"  -> "argument_periapsis"
      [] key = "Tp" -> "time_periapsis_jd"
      [] key = "MA" -> "mean_anomaly"
      [] key = "TA" -> "true_anomaly"
      [] key = "A"  -> "semi_major_axis"
      [] key = "AD" -> "apoapsis_dist"
      [] key = "PR" -> "period"
      [] key = "N"  -> "mean_motion"

\* the value the chain stores for a key: val / 1e8 for the lengths,
\* val / 86400.0 for the period, val for the others
Convert(key, val) ==
    IF key \in {"QR", "A", "AD"} THEN Div(val, HundredMillionKm)
    ELSE IF key = "PR" THEN Div(val, SecondsPerDay)
    ELSE val

\* one key = value pair of a line: what is not found by the pattern is passed
\* over, and so is a value float() rejects (NaN stands for its text)
StoreItem(d, item) ==
    IF item.key \notin RegexKeys \/ item.value = NaN
    THEN d
    ELSE Put(d, ElementName(item.key), Convert(item.key, item.value))

RECURSIVE StoreItems(_, _, _)
\* for key, value in matches, from the pair k on
StoreItems(d, items, k) ==
    IF k > Len(items) THEN d ELSE StoreItems(StoreItem(d, items[k]), items, k + 1)

\* the mean anomaly the service gives on day d for an orbit whose M0 is that of
\* day d0
ServiceMA(orbit, d0, d) == Add(orbit.M0, Mul(Num(d - d0), Div(Num(360), orbit.period)))

\* the lines of one record of an answer: the line of its date, and the lines of
\* its key = value pairs
ServiceRecord(orbit, d0, d) ==
    << [kind |-> "epoch", jd |-> d],
       [kind |-> "pairs",
        items |-> << [key |-> "EC", value |-> orbit.e],
                     [key |-> "QR", value |-> Mul(Mul(orbit.a, Sub(Scale, orbit.e)),
                                                  AstronomicalUnit)],
                     [key |-> "IN", value |-> orbit.i] >>],
       [kind |-> "pairs",
        items |-> << [key |-> "OM", value |-> orbit.Omega],
                     [key |-> "W", value |-> orbit.omega],
                     [key |-> "Tp", value |-> Num(d)] >>],
       [kind |-> "pairs",
        items |-> << [key |-> "N", value |-> Div(Num(360), Mul(orbit.period, SecondsPerDay))],
                     [key |-> "MA", value |-> ServiceMA(orbit, d0, d)],
                     [key |-> "TA", value |-> ServiceMA(orbit, d0, d)] >>],
       [kind |-> "pairs",
        items |-> << [key |-> "A", value |-> Mul(orbit.a, AstronomicalUnit)],
                     [key |-> "AD", value |-> Mul(Mul(orbit.a, Add(Scale, orbit.e)),
                                                  AstronomicalUnit)],
                     [key |-> "PR", value |-> Mul(orbit.period, SecondsPerDay)] >>] >>

\* the record of a body for which the service gives no A, AD and PR
ServiceRecordOpen(orbit, e, d) ==
    << [kind |-> "epoch", jd |-> d],
       [kind |-> "pairs",
        items |-> << [key |-> "EC", value |-> e],
                     [key |-> "QR", value |-> Mul(Mul(orbit.a, Sub(Scale, orbit.e)),
                                                  AstronomicalUnit)],
                     [key |-> "IN", value |-> orbit.i] >>] >>

\* the record with a date and a mean anomaly that float() rejects
ServiceRecordGarbled(orbit, d) ==
    << [kind |-> "epoch", jd |-> NaN],
       [kind |-> "pairs",
        items |-> << [key |-> "EC", value |-> orbit.e],
                     [key |-> "MA", value |-> NaN] >>] >>

\* a line that is none of the others: a line of the header, an empty line
Header == << [kind |-> "other"] >>

\* the line $$SOE
SOE == << [kind |-> "soe"] >>

\* the line $$EOE
EOE == << [kind |-> "eoe"] >>

\* the texts the service can answer a request for the elements of an orbit from
\* day d to day d + 1 in steps of one day with
ServiceTexts(orbit, d) ==
    { Header \o SOE \o ServiceRecord(orbit, d, d) \o EOE \o Header,
      Header \o SOE \o ServiceRecord(orbit, d, d) \o ServiceRecord(orbit, d, d + 1) \o EOE,
      Header \o SOE \o ServiceRecord(orbit, d, d) \o Header,
      Header \o SOE \o ServiceRecordOpen(orbit, orbit.e, d) \o EOE,
      Header \o SOE \o ServiceRecordOpen(orbit, Scale, d) \o EOE,
      Header \o SOE \o ServiceRecordGarbled(orbit, d) \o EOE,
      Header \o SOE \o << [kind |-> "epoch", jd |-> d] >> \o EOE,
      Header \o SOE \o EOE,
      Header }

\* what requests.get and response.json() can meet: an exception of requests, an
\* HTTP error status, a body that is not JSON, a JSON body without 'result',
\* one whose result is not text, one whose result holds 'ERROR', or a text
ApiOutcomes(d) ==
    {[kind |-> k] : k \in {"RequestException", "HTTPError", "JSONDecodeError",
                           "no_result", "result_not_text", "ERROR"}}
    \cup {[kind |-> "text", text |-> t] : t \in ServiceTexts(Earth, d) \cup ServiceTexts(Comet, d)}

\* the call get_orbital_elements_horizons(target_id, epoch), before the request
FetchInit ==
    /\ call = "get_orbital_elements_horizons"
    /\ KeplerIdle
    /\ HorizonsIdle
    /\ LabelsNone
    /\ PushIdle
    /\ req_epoch \in {StartDay, StartDay + 1}
    /\ api \in ApiOutcomes(req_epoch)
    /\ lines = <<>>
    /\ line_no = 0
    /\ parsed = <<>>
    /\ current_epoch_jd = 0
    /\ pc = "request"
    /\ exc = <<>>
    /\ orbital_elements_list = <<>>
    /\ start_date = 0
    /\ time_steps = <<>>
    /\ dates = <<>>
    /\ i = 0
    /\ loc = <<>>
    /\ positions = <<>>
    /\ orbit_data = <<>>
    /\ frames = <<>>
    /\ fig = <<>>

\* what every action of the function leaves alone
FetchFrame ==
    UNCHANGED <<call, kvars, lvars, gvars, exc, orbital_elements_list, start_date, time_steps, dates,
                i, loc, positions, orbit_data, frames, fig, module, object_ids, names,
                query_date, fetched, elements_list, req_epoch, api>>

\* requests.get, raise_for_status, response.json() or the test of the result
\* raises: the except clauses print and return None
FetchRaise ==
    /\ pc = "request"
    /\ api.kind \in {"RequestException", "HTTPError", "JSONDecodeError", "result_not_text"}
    /\ returned' = None
    /\ pc' = "done"
    /\ UNCHANGED <<lines, line_no, parsed, current_epoch_jd>>
    /\ FetchFrame

\* 'ERROR' in result['result']: return None
FetchApiError ==
    /\ pc = "request"
    /\ api.kind = "ERROR"
    /\ returned' = None
    /\ pc' = "done"
    /\ UNCHANGED <<lines, line_no, parsed, current_epoch_jd>>
    /\ FetchFrame

\* parse_horizons_json: no result field, return None
FetchNoResult ==
    /\ pc = "request"
    /\ api.kind = "no_result"
    /\ returned' = None
    /\ pc' = "done"
    /\ UNCHANGED <<lines, line_no, parsed, current_epoch_jd>>
    /\ FetchFrame

\* parse_horizons_text: lines = text.split('\n')
ParseSplit ==
    /\ pc = "request"
    /\ api.kind = "text"
    /\ lines' = api.text
    /\ pc' = "find_soe"
    /\ UNCHANGED <<line_no, parsed, current_epoch_jd, returned>>
    /\ FetchFrame

\* the first loop finds no $$SOE: ephemeris_start == -1, return None
ParseNoEphemeris ==
    /\ pc = "find_soe"
    /\ \A k \in 1..Len(lines) : lines[k].kind # "soe"
    /\ returned' = None
    /\ pc' = "done"
    /\ UNCHANGED <<lines, line_no, parsed, current_epoch_jd>>
    /\ FetchFrame

\* the first loop finds $$SOE: ephemeris_start = i + 1 at the first such line
ParseEphemerisStart ==
    /\ pc = "find_soe"
    /\ \E k \in 1..Len(lines) :
          /\ lines[k].kind = "soe"
          /\ \A j \in 1..(k - 1) : lines[j].kind # "soe"
          /\ line_no' = k
    /\ pc' = "ephemeris"
    /\ UNCHANGED <<lines, parsed, current_epoch_jd, returned>>
    /\ FetchFrame

\* a pass of the second loop on $$EOE: break
ParseEOE ==
    /\ pc = "ephemeris"
    /\ line_no < Len(lines)
    /\ lines[line_no + 1].kind = "eoe"
    /\ pc' = "finish"
    /\ UNCHANGED <<lines, line_no, parsed, current_epoch_jd, returned>>
    /\ FetchFrame

\* a pass on the line of a date: current_epoch_jd = float(parts[0]), or pass
ParseEpochLine ==
    /\ pc = "ephemeris"
    /\ line_no < Len(lines)
    /\ lines[line_no + 1].kind = "epoch"
    /\ current_epoch_jd' =
          IF lines[line_no + 1].jd = NaN THEN current_epoch_jd ELSE lines[line_no + 1].jd
    /\ line_no' = line_no + 1
    /\ UNCHANGED <<lines, parsed, pc, returned>>
    /\ FetchFrame

\* a pass on a line of key = value pairs
ParsePairsLine ==
    /\ pc = "ephemeris"
    /\ line_no < Len(lines)
    /\ lines[line_no + 1].kind = "pairs"
    /\ parsed' = StoreItems(parsed, lines[line_no + 1].items, 1)
    /\ line_no' = line_no + 1
    /\ UNCHANGED <<lines, current_epoch_jd, pc, returned>>
    /\ FetchFrame

\* a pass on any other line
ParseOtherLine ==
    /\ pc = "ephemeris"
    /\ line_no < Len(lines)
    /\ lines[line_no + 1].kind \in {"other", "soe"}
    /\ line_no' = line_no + 1
    /\ UNCHANGED <<lines, parsed, current_epoch_jd, pc, returned>>
    /\ FetchFrame

\* the lines are exhausted
ParseEndOfText ==
    /\ pc = "ephemeris"
    /\ line_no = Len(lines)
    /\ pc' = "finish"
    /\ UNCHANGED <<lines, line_no, parsed, current_epoch_jd, returned>>
    /\ FetchFrame

\* elements['epoch_jd'] = current_epoch_jd, if it is set
WithEpoch(d, jd) == IF jd # 0 THEN Put(d, "epoch_jd", jd) ELSE d

\* the semi-major axis is to be computed from periapsis_dist and eccentricity
AxisMissing(d) ==
    /\ "semi_major_axis" \notin DOMAIN d
    /\ "periapsis_dist" \in DOMAIN d
    /\ "eccentricity" \in DOMAIN d

\* elements['semi_major_axis'] = periapsis_dist / (1 - eccentricity)
WithAxis(d) ==
    IF AxisMissing(d)
    THEN Put(d, "semi_major_axis", Div(d.periapsis_dist, Sub(Scale, d.eccentricity)))
    ELSE d

\* elements['period'] = 365.25 * (semi_major_axis ** 1.5)
WithPeriod(d) ==
    IF "period" \notin DOMAIN d /\ "semi_major_axis" \in DOMAIN d
    THEN Put(d, "period",
             Mul(Frac(36525, 100), Mul(d.semi_major_axis, Sqrt(d.semi_major_axis))))
    ELSE d

\* the missing values divide by 1 - eccentricity = 0: ZeroDivisionError, the
\* except clause prints and returns None
ParseZeroDivision ==
    /\ pc = "finish"
    /\ AxisMissing(WithEpoch(parsed, current_epoch_jd))
    /\ parsed.eccentricity = Scale
    /\ returned' = None
    /\ pc' = "done"
    /\ UNCHANGED <<lines, line_no, parsed, current_epoch_jd>>
    /\ FetchFrame

\* the epoch and the missing values are added: return elements if elements else None
ParseFinish ==
    /\ pc = "finish"
    /\ ~(AxisMissing(WithEpoch(parsed, current_epoch_jd)) /\ parsed.eccentricity = Scale)
    /\ parsed' = WithPeriod(WithAxis(WithEpoch(parsed, current_epoch_jd)))
    /\ returned' = IF DOMAIN parsed' # {} THEN parsed' ELSE None
    /\ pc' = "done"
    /\ UNCHANGED <<lines, line_no, current_epoch_jd>>
    /\ FetchFrame

FetchNext ==
    \/ FetchRaise
    \/ FetchApiError
    \/ FetchNoResult
    \/ ParseSplit
    \/ ParseNoEphemeris
    \/ ParseEphemerisStart
    \/ ParseEOE
    \/ ParseEpochLine
    \/ ParsePairsLine
    \/ ParseOtherLine
    \/ ParseEndOfText
    \/ ParseZeroDivision
    \/ ParseFinish

SpecFetch == FetchInit /\ [][FetchNext]_vars

\* the lines of dates of the text parsed
EpochLines == {k \in 1..Len(lines) : lines[k].kind = "epoch"}

\* the lines of pairs of the first record of the text parsed, the record of
\* START_TIME: those before the second line of a date
FirstRecord ==
    {k \in 1..Len(lines) :
        lines[k].kind = "pairs" /\ Cardinality({j \in EpochLines : j <= k}) <= 1}

\* the values the first record gives for a key
RequestedValues(key) ==
    {it.value : it \in {x \in UNION {{lines[k].items[n] : n \in 1..Len(lines[k].items)}
                                     : k \in FirstRecord} : x.key = key}}

\* C22: the dict get_orbital_elements_horizons returns holds as epoch_jd the
\* epoch requested, and for each key stored as it is read (EC, IN, OM, W, MA,
\* TA, N) the value of the record at that epoch, the first of the answer.
OneRecordAtEpoch ==
    (call = "get_orbital_elements_horizons" /\ pc = "done" /\ returned # None)
        => /\ "epoch_jd" \in DOMAIN returned => returned.epoch_jd = req_epoch
           /\ \A key \in {"EC", "IN", "OM", "W", "MA", "TA", "N"} :
                 ElementName(key) \in DOMAIN returned
                     => returned[ElementName(key)] \in RequestedValues(key)

\* C23: get_orbital_elements_horizons raises nothing and returns None or a dict
\* that is not empty; it returns None whenever the request or the decoding of
\* the body failed, the answer held an error or no $$SOE line, or no element
\* was parsed from it.
FailuresAreNone ==
    (call = "get_orbital_elements_horizons" /\ pc = "done")
        => /\ exc = <<>>
           /\ returned = None \/ DOMAIN returned # {}
           /\ (\/ api.kind # "text"
               \/ \A k \in 1..Len(api.text) : api.text[k].kind # "soe"
               \/ DOMAIN parsed \ {"epoch_jd"} = {})
                 => returned = None

\* C24: the lengths parse_horizons_text returns are the kilometres of the
\* answer divided by those of one astronomical unit, and the period is its
\* seconds divided by 86400, to within the rounding; so that for the complete
\* record of an object the semi-major axis and the period returned are those
\* the astroquery module gives for it.
UnitsConverted ==
    (call = "get_orbital_elements_horizons" /\ pc = "done" /\ returned # None)
        => /\ \A key \in {"A", "QR", "AD"} :
                 RequestedValues(key) # {}
                     => \E val \in RequestedValues(key) :
                           Rounds(returned[ElementName(key)], Div(val, AstronomicalUnit))
           /\ RequestedValues("PR") # {}
                 => \E val \in RequestedValues("PR") :
                       Rounds(returned.period, Div(val, SecondsPerDay))
           /\ \A obj_id \in ObjectIds :
                 api.text = Header \o SOE \o ServiceRecord(KnownOrbit(obj_id), req_epoch, req_epoch)
                            \o EOE \o Header
                     => /\ Rounds(returned.semi_major_axis,
                                  HorizonsElements(obj_id).semi_major_axis)
                        /\ Rounds(returned.period, HorizonsElements(obj_id).period)

\* ------------------------------------------------------------------------
\* push_to_github.py: run_command, setup_git_config, init_repository,
\* check_changes, push_changes and main
\* ------------------------------------------------------------------------

\* what running a command gives: its exit status, and what of its output the
\* code looks for ("" when none of it is there)
Outcome(status, out, err) == [exit |-> status, stdout |-> out, stderr |-> err]

\* the command succeeds; its output is of no interest
Ok == Outcome(0, "", "")

\* the command fails or succeeds; its output is of no interest
EitherWay == {Outcome(status, "", "") : status \in {0, 1}}

\* run_command(cmd, description, check): subprocess.run(..., check=check) raises
\* CalledProcessError on a non-zero exit only if check is set; the exception is
\* caught and returned, and otherwise the CompletedProcess is
run_command(cmd, description, check, outcome) ==
    [cmd         |-> cmd,
     description |-> description,
     check       |-> check,
     exit        |-> outcome.exit,
     stdout      |-> outcome.stdout,
     stderr      |-> outcome.stderr,
     raised      |-> check /\ outcome.exit # 0]

\* isinstance(result, subprocess.CalledProcessError)
IsError(r) == r.raised

\* the calls of run_command whose result the code tests
GhUser(o) == run_command("gh api user --jq '.login'", "Getting GitHub username", TRUE, o)

GetUrl(o) == run_command("git remote get-url origin", "Checking remote origin", FALSE, o)

Status(o) == run_command("git status --porcelain", "Checking for changes", TRUE, o)

Pull(o) ==
    run_command("git pull origin main --allow-unrelated-histories", "Pulling from remote",
                FALSE, o)

Commit(o) == run_command("git commit -m", "Creating commit", FALSE, o)

Push(o) == run_command("git push origin main", "Pushing to GitHub", TRUE, o)

PullAgain(o) ==
    run_command("git pull origin main --allow-unrelated-histories", "Pulling latest changes",
                TRUE, o)

PushAgain(o) == run_command("git push origin main", "Retrying push", TRUE, o)

PushUpstream(o) == run_command("git push -u origin main", "Pushing with upstream", TRUE, o)

\* the calls of run_command whose result the code does not look at
GitConfig(o) ==
    << run_command("git config user.name", "Setting git username", TRUE, o),
       run_command("git config user.email", "Setting git email", TRUE, o),
       run_command("git config pull.rebase false", "Setting merge strategy", TRUE, o) >>

GitInit(o) == run_command("git init", "Initializing git repository", TRUE, o)

RemoteAdd(o) ==
    run_command("git remote add origin https://github.com/DeepSkyWonder/orbital-mechanics.git",
                "Adding remote origin", TRUE, o)

\* `git rm ... || true` exits with 0 whatever git rm does
GitStage(o) ==
    << run_command("git rm -r --cached __pycache__/ 2>/dev/null || true",
                   "Removing cached files", FALSE, Ok),
       run_command("git add .", "Staging all changes", TRUE, o) >>

ConflictStatus(o) == run_command("git status --porcelain", "Getting conflict status", TRUE, o)

GitDebug(o) ==
    << run_command("git log --oneline -3", "Recent commits", TRUE, o),
       run_command("git status", "Git status", TRUE, o),
       run_command("git remote -v", "Remote info", TRUE, o) >>

GitFetch(o) ==
    << run_command("git fetch origin", "Fetching remote info", TRUE, o),
       run_command("git log --oneline origin/main -3", "Remote commits", TRUE, o) >>

GitLogAfterPull(o) == run_command("git log --oneline -3", "Commits after pull", TRUE, o)

\* main() is called: push_changes is about to change to /content
PushInit ==
    /\ call = "main"
    /\ KeplerIdle
    /\ HorizonsIdle
    /\ LabelsNone
    /\ ParseIdle
    /\ dot_git \in BOOLEAN
    /\ git_log = <<>>
    /\ result = <<>>
    /\ success = ""
    /\ exit_status = -1
    /\ pc = "chdir"
    /\ exc = <<>>
    /\ orbital_elements_list = <<>>
    /\ start_date = 0
    /\ time_steps = <<>>
    /\ dates = <<>>
    /\ i = 0
    /\ loc = <<>>
    /\ positions = <<>>
    /\ orbit_data = <<>>
    /\ frames = <<>>
    /\ fig = <<>>

\* what every action of the script leaves alone
PushFrame ==
    UNCHANGED <<call, kvars, hvars, lvars, pvars, orbital_elements_list, start_date,
                time_steps, dates, i, loc, positions, orbit_data, frames, fig, dot_git>>

\* os.chdir('/content') raises: main catches the exception and exits with 1
MainUnexpected ==
    /\ pc = "chdir"
    /\ exc' = <<"FileNotFoundError", "/content">>
    /\ exit_status' = 1
    /\ pc' = "exited"
    /\ UNCHANGED <<git_log, result, success>>
    /\ PushFrame

\* os.chdir('/content') succeeds
PushChdir ==
    /\ pc = "chdir"
    /\ pc' = "setup"
    /\ UNCHANGED <<git_log, result, success, exit_status, exc>>
    /\ PushFrame

\* setup_git_config: the user name is not got, it returns False and so does
\* push_changes
SetupFailed ==
    /\ pc = "setup"
    /\ \E o \in EitherWay :
          /\ result' = GhUser(o)
          /\ IsError(result')
          /\ git_log' = Append(git_log, result')
    /\ success' = "False"
    /\ pc' = "returned"
    /\ UNCHANGED <<exit_status, exc>>
    /\ PushFrame

\* setup_git_config: the user name is got, the three git config commands run
SetupGitConfig ==
    /\ pc = "setup"
    /\ \E o \in EitherWay, c \in EitherWay :
          /\ result' = GhUser(o)
          /\ ~IsError(result')
          /\ git_log' = Append(git_log, result') \o GitConfig(c)
    /\ pc' = "init"
    /\ UNCHANGED <<success, exit_status, exc>>
    /\ PushFrame

\* init_repository: .git exists
InitExisting ==
    /\ pc = "init"
    /\ dot_git
    /\ pc' = "status"
    /\ UNCHANGED <<git_log, result, success, exit_status, exc>>
    /\ PushFrame

\* init_repository: git init, and the remote is added if the result of
\* git remote get-url origin is a CalledProcessError
InitRepository ==
    /\ pc = "init"
    /\ ~dot_git
    /\ \E o \in EitherWay, u \in EitherWay, r \in EitherWay :
          /\ result' = GetUrl(u)
          /\ git_log' = git_log \o <<GitInit(o), result'>>
                        \o (IF IsError(result') THEN <<RemoteAdd(r)>> ELSE <<>>)
    /\ pc' = "status"
    /\ UNCHANGED <<success, exit_status, exc>>
    /\ PushFrame

\* check_changes returns False, on an error of git status or on an empty
\* output: push_changes prints that the repository is up to date and returns True
CheckUnchanged ==
    /\ pc = "status"
    /\ \E o \in {Outcome(1, "", ""), Outcome(0, "", "")} :
          /\ result' = Status(o)
          /\ git_log' = Append(git_log, result')
    /\ success' = "True"
    /\ pc' = "returned"
    /\ UNCHANGED <<exit_status, exc>>
    /\ PushFrame

\* check_changes returns True: the changes are staged
CheckChanged ==
    /\ pc = "status"
    /\ \E o \in {Outcome(0, "changes", "")}, a \in EitherWay :
          /\ result' = Status(o)
          /\ ~IsError(result') /\ result'.stdout # ""
          /\ git_log' = Append(git_log, result') \o GitStage(a)
    /\ pc' = "pull"
    /\ UNCHANGED <<success, exit_status, exc>>
    /\ PushFrame

\* git pull: the conflicts are resolved if the result is a CalledProcessError
\* with CONFLICT in its stderr, which takes the code to the resolution;
\* otherwise the commit is next
PullFirst ==
    /\ pc = "pull"
    /\ \E o \in {Ok, Outcome(1, "", "CONFLICT"), Outcome(1, "", "")} :
          /\ result' = Pull(o)
          /\ git_log' = Append(git_log, result')
    /\ pc' = IF IsError(result') /\ result'.stderr = "CONFLICT" THEN "resolve" ELSE "commit"
    /\ UNCHANGED <<success, exit_status, exc>>
    /\ PushFrame

\* git commit, whose result is not a CalledProcessError or holds
\* 'nothing to commit': the three commands that show the state run
CommitPassed ==
    /\ pc = "commit"
    /\ \E o \in {Ok, Outcome(1, "nothing to commit", ""), Outcome(1, "", "")}, d \in EitherWay :
          /\ result' = Commit(o)
          /\ ~IsError(result') \/ result'.stdout = "nothing to commit"
          /\ git_log' = Append(git_log, result') \o GitDebug(d)
    /\ pc' = "push"
    /\ UNCHANGED <<success, exit_status, exc>>
    /\ PushFrame

\* git push succeeds on the first try
PushFirstTry ==
    /\ pc = "push"
    /\ result' = Push(Ok)
    /\ git_log' = Append(git_log, result')
    /\ success' = "True"
    /\ pc' = "returned"
    /\ UNCHANGED <<exit_status, exc>>
    /\ PushFrame

\* git push is rejected as non-fast-forward: fetch and log
PushNonFastForward ==
    /\ pc = "push"
    /\ \E f \in EitherWay :
          /\ result' = Push(Outcome(1, "", "non-fast-forward"))
          /\ IsError(result')
          /\ git_log' = Append(git_log, result') \o GitFetch(f)
    /\ pc' = "pull_again"
    /\ UNCHANGED <<success, exit_status, exc>>
    /\ PushFrame

\* git push fails for another reason
PushOtherFailure ==
    /\ pc = "push"
    /\ result' = Push(Outcome(1, "", ""))
    /\ IsError(result')
    /\ git_log' = Append(git_log, result')
    /\ pc' = "upstream"
    /\ UNCHANGED <<success, exit_status, exc>>
    /\ PushFrame

\* the pull before the second push fails: return False
PullAgainFailed ==
    /\ pc = "pull_again"
    /\ result' = PullAgain(Outcome(1, "", ""))
    /\ IsError(result')
    /\ git_log' = Append(git_log, result')
    /\ success' = "False"
    /\ pc' = "returned"
    /\ UNCHANGED <<exit_status, exc>>
    /\ PushFrame

\* the pull before the second push succeeds
PullAgainDone ==
    /\ pc = "pull_again"
    /\ \E l \in EitherWay :
          /\ result' = PullAgain(Ok)
          /\ git_log' = git_log \o <<result', GitLogAfterPull(l)>>
    /\ pc' = "push_again"
    /\ UNCHANGED <<success, exit_status, exc>>
    /\ PushFrame

\* the second push, after the pull
PushRetry ==
    /\ pc = "push_again"
    /\ \E o \in EitherWay :
          /\ result' = PushAgain(o)
          /\ git_log' = Append(git_log, result')
    /\ success' = IF IsError(result') THEN "False" ELSE "True"
    /\ pc' = "returned"
    /\ UNCHANGED <<exit_status, exc>>
    /\ PushFrame

\* the second push, with the upstream set
PushWithUpstream ==
    /\ pc = "upstream"
    /\ \E o \in EitherWay :
          /\ result' = PushUpstream(o)
          /\ git_log' = Append(git_log, result')
    /\ success' = IF IsError(result') THEN "False" ELSE "True"
    /\ pc' = "returned"
    /\ UNCHANGED <<exit_status, exc>>
    /\ PushFrame

\* main: sys.exit(1) unless push_changes returned True
MainExit ==
    /\ pc = "returned"
    /\ exit_status' = IF success = "True" THEN 0 ELSE 1
    /\ pc' = "exited"
    /\ UNCHANGED <<git_log, result, success, exc>>
    /\ PushFrame

\* No pass of the script makes the result of the first pull or of the commit a
\* CalledProcessError, both being run with check=False: the resolution of the
\* conflicts and the return on a failed commit are steps no run takes, and they
\* are no actions here.
PushNext ==
    \/ MainUnexpected
    \/ PushChdir
    \/ SetupFailed
    \/ SetupGitConfig
    \/ InitExisting
    \/ InitRepository
    \/ CheckUnchanged
    \/ CheckChanged
    \/ PullFirst
    \/ CommitPassed
    \/ PushFirstTry
    \/ PushNonFastForward
    \/ PushOtherFailure
    \/ PullAgainFailed
    \/ PullAgainDone
    \/ PushRetry
    \/ PushWithUpstream
    \/ MainExit

SpecPush == PushInit /\ [][PushNext]_vars

\* the commands of the log that push
Pushes == {k \in 1..Len(git_log) : git_log[k].description \in
              {"Pushing to GitHub", "Retrying push", "Pushing with upstream"}}

\* the commands of the log that failed, among those with one of the descriptions
Failed(descriptions) ==
    {k \in 1..Len(git_log) : git_log[k].description \in descriptions /\ git_log[k].exit # 0}

\* C25: when main has exited, push_changes has returned True, and main has not
\* exited with 1, only if git status succeeded and showed no change or a push
\* exited with 0; it has returned False, and main has exited with 1, whenever
\* git status failed, the commit failed for another reason than 'nothing to
\* commit', the pull before the second push failed or the last push failed; and
\* at most two pushes were run.
PushReportedTruly ==
    pc = "exited"
        => /\ exit_status = 0 <=> success = "True"
           /\ success = "True"
                 => \/ \E k \in 1..Len(git_log) :
                          /\ git_log[k].description = "Checking for changes"
                          /\ git_log[k].exit = 0
                          /\ git_log[k].stdout = ""
                    \/ \E k \in Pushes : git_log[k].exit = 0
           /\ Failed({"Checking for changes", "Pulling latest changes"}) # {}
                 => success = "False" /\ exit_status = 1
           /\ (\E k \in Failed({"Creating commit"}) : git_log[k].stdout # "nothing to commit")
                 => success = "False" /\ exit_status = 1
           /\ (\E k \in Pushes : git_log[k].exit # 0 /\ \A j \in Pushes : j <= k)
                 => success = "False" /\ exit_status = 1
           /\ Cardinality(Pushes) <= 2

\* C26: every command of the log that exited with a status other than 0 was
\* seen by its caller as a CalledProcessError; after a failed
\* git remote get-url origin the remote is added next; after a pull that fails
\* with CONFLICT the status of the conflicts is asked next; and after a commit
\* that fails for another reason than 'nothing to commit' push_changes returns
\* False without running another command.
FailuresObserved ==
    \A k \in 1..Len(git_log) :
        git_log[k].exit # 0
            => /\ git_log[k].raised
               /\ (git_log[k].description = "Checking remote origin" /\ k < Len(git_log))
                     => git_log[k + 1].description = "Adding remote origin"
               /\ (/\ git_log[k].description = "Pulling from remote"
                   /\ git_log[k].stderr = "CONFLICT"
                   /\ k < Len(git_log))
                     => git_log[k + 1].description = "Getting conflict status"
               /\ (/\ git_log[k].description = "Creating commit"
                   /\ git_log[k].stdout # "nothing to commit")
                     => k = Len(git_log) /\ (pc \in {"returned", "exited"} => success = "False")

====
